---- MODULE Spec2Model ----
(***************************************************************************)
(* Model of the nutrition-claim eligibility engine of ChalakSure           *)
(* (src/nutrition_check.py, src/nutrition_cal.py).                         *)
(*                                                                         *)
(* Amounts are Python floats in the source.  They are modelled as exact    *)
(* rationals <<n, d>> with d > 0; the Python value None (and a key that is *)
(* absent from a dict) is the pair <<0, 0>>.  Python's round() rounds      *)
(* halves to the even neighbour, and so does RoundHalfEven.                *)
(***************************************************************************)
EXTENDS Integers, Sequences, FiniteSets, TLC

(***************************************************************************)
(* Rational arithmetic                                                     *)
(***************************************************************************)
None == <<0, 0>>

IsNone(v) == v[2] = 0

Abs(i) == IF i < 0 THEN -i ELSE i

RECURSIVE Gcd(_, _)
Gcd(a, b) == IF b = 0 THEN a ELSE Gcd(b, a % b)

Rat(n, d) ==
    LET g == Gcd(Abs(n), d)
    IN  <<n \div g, d \div g>>

Num(i) == <<i, 1>>

RMul(a, b) == Rat(a[1] * b[1], a[2] * b[2])

RSub(a, b) == Rat(a[1] * b[2] - b[1] * a[2], a[2] * b[2])

\* a / b for b > 0
RDiv(a, b) == Rat(a[1] * b[2], a[2] * b[1])

RLt(a, b) == a[1] * b[2] < b[1] * a[2]

RLe(a, b) == a[1] * b[2] <= b[1] * a[2]

REq(a, b) == a[1] * b[2] = b[1] * a[2]

\* Python round(x) for x = n/d: nearest integer, ties to the even one
RoundHalfEven(v) ==
    LET n == v[1]
        d == v[2]
        q == (n - (n % d)) \div d
        r == n % d
    IN  IF 2 * r < d THEN q
        ELSE IF 2 * r > d THEN q + 1
        ELSE IF q % 2 = 0 THEN q ELSE q + 1

\* variant of RoundToStep that goes down to the multiple of step below the value
round_down_to_step(v, step) == Num(((v[1] \div v[2]) \div step) * step)

\* round(value / step) * step
RoundToStep(v, step) == Num(RoundHalfEven(RDiv(v, Num(step))) * step)

\* round(value * k) / k
RoundToFraction(v, k) == Rat(RoundHalfEven(RMul(v, Num(k))), k)

(***************************************************************************)
(* nutrition_cal.round_nutrition_value                                     *)
(***************************************************************************)
\* the "less than X" flags
LessThanHalfFlag == Rat(-1, 10)

LessThanFiveFlag == Rat(-2, 10)

LessThanOneFlag == Rat(-3, 10)

EnergyNames == {"energy", "calories"}

FatNames == {"fat", "saturated_fat"}

TransFatNames == {"trans_fat"}

CholesterolNames == {"cholesterol"}

ProteinNames == {"protein", "carbohydrate", "fiber", "sugar"}

SodiumNames == {"sodium", "potassium"}

round_nutrition_value(value, nutrient_type) ==
    IF IsNone(value) THEN None
    ELSE IF nutrient_type \in EnergyNames THEN
        IF RLt(value, Num(5)) THEN Num(0)
        ELSE IF RLt(value, Num(50)) THEN RoundToStep(value, 5)
        ELSE RoundToStep(value, 10)
    ELSE IF nutrient_type \in FatNames THEN
        IF RLt(value, Rat(1, 2)) THEN Num(0)
        ELSE IF RLt(value, Num(5)) THEN RoundToFraction(value, 2)
        ELSE Num(RoundHalfEven(value))
    ELSE IF nutrient_type \in TransFatNames THEN
        IF REq(value, Num(0)) THEN Num(0)
        ELSE IF RLt(value, Rat(1, 2)) THEN LessThanHalfFlag
        ELSE IF RLt(value, Num(5)) THEN RoundToFraction(value, 2)
        ELSE Num(RoundHalfEven(value))
    ELSE IF nutrient_type \in CholesterolNames THEN
        IF RLt(value, Num(2)) THEN Num(0)
        ELSE IF RLt(value, Num(5)) THEN LessThanFiveFlag
        ELSE RoundToStep(value, 5)
    ELSE IF nutrient_type \in ProteinNames THEN
        IF RLt(value, Rat(1, 2)) THEN Num(0)
        ELSE IF RLt(value, Num(1)) THEN LessThanOneFlag
        ELSE Num(RoundHalfEven(value))
    ELSE IF nutrient_type \in SodiumNames THEN
        IF RLt(value, Num(5)) THEN Num(0)
        ELSE IF RLe(value, Num(140)) THEN RoundToStep(value, 5)
        ELSE RoundToStep(value, 10)
    ELSE
        IF RLe(Num(100), value) THEN Num(RoundHalfEven(value))
        ELSE IF RLe(Num(10), value) THEN RoundToFraction(value, 10)
        ELSE RoundToFraction(value, 100)

(***************************************************************************)
(* nutrition_cal.round_rdi_percent                                         *)
(***************************************************************************)
round_rdi_percent(value) ==
    IF IsNone(value) THEN None
    ELSE IF RLe(Num(5), value) /\ RLe(value, Num(50)) THEN RoundToStep(value, 5)
    ELSE IF RLt(Num(50), value) THEN RoundToStep(value, 10)
    ELSE RoundToFraction(value, 10)

(***************************************************************************)
(* nutrition_cal.format_nutrition_display and the rounded columns of       *)
(* nutrition_cal.prepare_rounded_values_display.  A displayed text is a    *)
(* record: the words before the number, the number as printed, the unit.   *)
(***************************************************************************)
\* the text "less than <bound> <unit>"
LessThanText(bound, unit) == [words |-> "less_than", number |-> bound, unit |-> unit]

\* the text "<number> <unit>"
NumberText(number, unit) == [words |-> "", number |-> number, unit |-> unit]

\* the text "-"
Dash == [words |-> "-", number |-> None, unit |-> ""]

\* int(value): the fraction is cut off, toward zero
Truncate(v) == IF v[1] >= 0 THEN Num(v[1] \div v[2]) ELSE Num(-((-v[1]) \div v[2]))

\* f"{value:.1f}" for k = 10, f"{value:.2f}" for k = 100
FormatFixed(v, k) == RoundToFraction(v, k)

\* value % 1 == 0
IsWhole(v) == v[1] % v[2] = 0

format_nutrition_display(value, nutrient_type, unit) ==
    IF IsNone(value) THEN Dash
    ELSE IF REq(value, LessThanHalfFlag) THEN LessThanText(Rat(1, 2), unit)
    ELSE IF REq(value, LessThanFiveFlag) THEN LessThanText(Num(5), unit)
    ELSE IF REq(value, LessThanOneFlag) THEN LessThanText(Num(1), unit)
    ELSE IF nutrient_type \in EnergyNames THEN NumberText(Truncate(value), unit)
    ELSE IF nutrient_type \in FatNames \cup TransFatNames THEN
        IF RLt(value, Num(5)) THEN NumberText(FormatFixed(value, 10), unit)
        ELSE NumberText(Truncate(value), unit)
    ELSE IF nutrient_type \in ProteinNames \cup SodiumNames \cup CholesterolNames THEN
        NumberText(Truncate(value), unit)
    ELSE
        IF RLe(Num(100), value) THEN NumberText(Truncate(value), unit)
        ELSE IF RLe(Num(10), value) THEN NumberText(FormatFixed(value, 10), unit)
        ELSE NumberText(FormatFixed(value, 100), unit)

\* variant of rounded_column_display that prints every rounded value as a number
rounded_column_as_number(rounded_value, key) == NumberText(rounded_value, "")

\* prepare_rounded_values_display: the text of a rounded column; the unit is in a
\* column of its own
rounded_column_display(rounded_value, key) ==
    IF IsNone(rounded_value) THEN Dash
    ELSE IF RLt(rounded_value, Num(0)) THEN
        IF REq(rounded_value, LessThanHalfFlag) THEN LessThanText(Rat(1, 2), "")
        ELSE IF REq(rounded_value, LessThanFiveFlag) THEN LessThanText(Num(5), "")
        ELSE IF REq(rounded_value, LessThanOneFlag) THEN LessThanText(Num(1), "")
        ELSE NumberText(rounded_value, "")
    ELSE IF IsWhole(rounded_value) THEN NumberText(Truncate(rounded_value), "")
    ELSE NumberText(FormatFixed(rounded_value, 10), "")

\* nutrient_display_info: the unit of a row of the rounding table
display_unit(key) ==
    IF key \in EnergyNames THEN "kcal"
    ELSE IF key \in FatNames \cup TransFatNames \cup ProteinNames THEN "g"
    ELSE "mg"

(***************************************************************************)
(* Python dicts are functions; a key is "in" the dict when it is in the    *)
(* function's domain, and dict.get gives None for a missing key.          *)
(***************************************************************************)
EmptyDict == <<>>

Get(d, k) == IF k \in DOMAIN d THEN d[k] ELSE None

Put(d, k, v) == [x \in (DOMAIN d) \cup {k} |-> IF x = k THEN v ELSE d[x]]

\* dict.update
Update(d, e) == [x \in (DOMAIN d) \cup (DOMAIN e) |-> IF x \in DOMAIN e THEN e[x] ELSE d[x]]

RdiKey(k) == k \o "_rdi_percent"

Per100kcalKey(k) == k \o "_per_100kcal"

RdiPer100kcalKey(k) == k \o "_rdi_percent_per_100kcal"

(***************************************************************************)
(* The nutrients of the form that the model carries.  The form has more    *)
(* fields (fat, trans fat, sodium, potassium, 25 vitamins and minerals);   *)
(* they are handled like the ones kept here.  Calcium stands for the       *)
(* vitamin/mineral group, whose fields hold a %RDI figure when the label   *)
(* method is selected.                                                     *)
(***************************************************************************)
BaseNutrients == {"energy", "protein", "saturated_fat", "cholesterol", "sugar", "fiber"}

VitaminMineralNutrients == {"calcium"}

\* nutrition_check.is_vitamin_or_mineral, on the keys the model carries
is_vitamin_or_mineral(nutrient_key) == nutrient_key \in VitaminMineralNutrients

\* Thai_RDIs.csv looked up through RDI_MAPPING: the rows the model carries
ThaiRDIs == [protein |-> 50, fiber |-> 25, saturated_fat |-> 20, cholesterol |-> 300, calcium |-> 800]

get_rdi_value(nutrient_key) ==
    IF nutrient_key \in DOMAIN ThaiRDIs THEN Num(ThaiRDIs[nutrient_key]) ELSE None

\* nutrition_check.create_nutrient_dict
create_nutrient_dict(values, multiplier) ==
    [k \in DOMAIN values |-> IF IsNone(values[k]) THEN None ELSE RMul(values[k], multiplier)]

\* nutrition_check.calculate_energy_from_saturated_fat
calculate_energy_from_saturated_fat(saturated_fat, energy) ==
    IF IsNone(saturated_fat) \/ IsNone(energy) \/ REq(energy, Num(0)) THEN None
    ELSE RMul(RDiv(RMul(saturated_fat, Num(9)), energy), Num(100))

(***************************************************************************)
(* nutrition_cal.adjust_per_100_to_serving                                 *)
(***************************************************************************)
\* variant of EffectiveReference that never doubles
reference_as_given(ref_serving_size, is_user_input) == ref_serving_size

\* the reference amount the conversion scales to
EffectiveReference(ref_serving_size, is_user_input) ==
    IF ref_serving_size <= 30 /\ ~is_user_input THEN 2 * ref_serving_size ELSE ref_serving_size

\* The factors are Python floats.  Among the serving sizes and reference amounts of this
\* model, conversion_factor * reference_factor comes out one binary place below the
\* product of the exact quotients for <<serving_size, ref_serving_size, is_user_input>>
\* below (0.3 * (20 / 30) = 0.19999999999999998); for all the others it is the double
\* nearest to the exact factor.
FactorsBelowExact == {<<30, 20, TRUE>>}

\* stands for one binary place of a factor: smaller than the distance between any
\* amount of this model and a rounding boundary the amount is not on
LastPlace == Rat(1, 10000)

\* conversion_factor * reference_factor, or conversion_factor * (2 * ref) / serving_size
adjustment_factor_of(serving_size, ref_serving_size, is_user_input) ==
    LET conversion_factor == Rat(serving_size, 100)
        exact == RMul(conversion_factor,
                      Rat(EffectiveReference(ref_serving_size, is_user_input), serving_size))
    IN  IF <<serving_size, ref_serving_size, is_user_input>> \in FactorsBelowExact
        THEN RSub(exact, LastPlace) ELSE exact

adjust_per_100_to_serving(values, serving_size, ref_serving_size, is_user_input) ==
    IF serving_size <= 0 \/ ref_serving_size <= 0 THEN values
    ELSE [k \in DOMAIN values |->
             IF IsNone(values[k]) THEN None
             ELSE round_nutrition_value(
                      RMul(values[k],
                           adjustment_factor_of(serving_size, ref_serving_size, is_user_input)),
                      k)]

(***************************************************************************)
(* nutrition_cal.calculate_per_100kcal                                     *)
(***************************************************************************)
calculate_per_100kcal(values, energy_value) ==
    IF IsNone(energy_value) \/ RLe(energy_value, Num(0)) THEN EmptyDict
    ELSE LET per_100kcal_factor == RDiv(Num(100), energy_value)
             present == {k \in {"protein", "fiber"} : ~IsNone(Get(values, k))}
         IN  [x \in {Per100kcalKey(k) : k \in present} |->
                 LET k == CHOOSE c \in present : Per100kcalKey(c) = x
                 IN  round_nutrition_value(RMul(values[k], per_100kcal_factor), k)]

(***************************************************************************)
(* Threshold expressions.  The tables hold them as text; the model keeps   *)
(* the text as the list of its comparisons ("atoms") and the keyword that  *)
(* joins them.  An atom is one of the four written forms:                  *)
(*   bare   "<op><number>"              rdi   "<op><number>% RDI"          *)
(*   named  "<name><op><number>"        raw   "raw_<nutrient><op><number>" *)
(* conn is "or" for text joined by the Thai word for "or", "and" for the   *)
(* Thai word for "and", "none" for a single comparison, "nan" for an       *)
(* empty cell (pandas NaN, whose str() is "nan") and "number" for a cell   *)
(* that holds a number without an operator.  The operators ">=u" and "<=u" *)
(* stand for the one-character signs U+2265 and U+2264.                    *)
(***************************************************************************)
Atom(form, name, op, num) == [form |-> form, name |-> name, op |-> op, num |-> num]

Single(atom) == [conn |-> "none", atoms |-> <<atom>>]

NaN == [conn |-> "nan", atoms |-> <<>>]

IsNaN(e) == e.conn = "nan"

Bare(op, num) == Single(Atom("bare", "", op, num))

RdiExpr(op, num) == Single(Atom("rdi", "", op, num))

\* convert_operator inside evaluate_threshold
convert_operator(op) ==
    IF op = ">=u" THEN ">=" ELSE IF op = "<=u" THEN "<=" ELSE op

\* variant of Compare that reads "<" and ">" as inclusive
compare_inclusive(value, operator, threshold) ==
    CASE operator \in {"<", "<="} -> RLe(value, threshold)
      [] operator \in {">", ">="} -> RLe(threshold, value)
      [] OTHER -> FALSE

\* Python's eval of "<value> <operator> <threshold>"
Compare(value, operator, threshold) ==
    CASE operator = "<"  -> RLt(value, threshold)
      [] operator = "<=" -> RLe(value, threshold)
      [] operator = ">"  -> RLt(threshold, value)
      [] operator = ">=" -> RLe(threshold, value)
      [] OTHER -> FALSE

\* NUTRIENT_MAPPING: the Thai names of the table, written th_<name>
NUTRIENT_MAPPING ==
    [th_saturated_fat |-> "saturated_fat", th_cholesterol |-> "cholesterol",
     th_energy |-> "energy", th_protein |-> "protein", th_sugar |-> "sugar",
     th_fiber |-> "fiber"]

\* nutrition_check.normalize_nutrient_key (names are matched whole)
normalize_nutrient_key(name) ==
    IF name \in DOMAIN NUTRIENT_MAPPING THEN NUTRIENT_MAPPING[name] ELSE name

(***************************************************************************)
(* nutrition_check.evaluate_threshold.  The patterns are tried in the      *)
(* order of the source: raw (anchored at the start, only when label_values *)
(* is given), RDI (searched anywhere in the text), bare (anchored at the   *)
(* start), then the split on "or", the split on "and", and the named       *)
(* comparison.  NoDict is the argument label_values=None.                  *)
(***************************************************************************)
NoDict == [none |-> None]

FirstRdi(atoms) ==
    LET S == {i \in 1..Len(atoms) : atoms[i].form = "rdi"}
    IN  IF S = {} THEN 0 ELSE CHOOSE i \in S : \A j \in S : i <= j

RECURSIVE evaluate_threshold(_, _, _, _)
evaluate_threshold(threshold_str, values_dict, nutrient_key, label_values) ==
    LET atoms == threshold_str.atoms
        n == Len(atoms)
        first == IF n > 0 THEN atoms[1] ELSE Atom("", "", "", None)
        r == FirstRdi(atoms)
    IN  IF first.form = "raw" /\ label_values # NoDict THEN
            LET raw_value == Get(label_values, first.name)
            IN  IF IsNone(raw_value) THEN TRUE
                ELSE Compare(raw_value, convert_operator(first.op), first.num)
        ELSE IF r > 0 THEN
            LET value == Get(values_dict, RdiKey(nutrient_key))
            IN  IF IsNone(value) THEN FALSE
                ELSE Compare(value, convert_operator(atoms[r].op), atoms[r].num)
        ELSE IF first.form = "bare" THEN
            LET value == Get(values_dict, nutrient_key)
            IN  IF IsNone(value) THEN FALSE
                ELSE Compare(value, convert_operator(first.op), first.num)
        ELSE IF threshold_str.conn = "or" THEN
            \E i \in 1..n : evaluate_threshold(Single(atoms[i]), values_dict, nutrient_key, label_values)
        ELSE IF threshold_str.conn = "and" THEN
            \A i \in 1..n : evaluate_threshold(Single(atoms[i]), values_dict, nutrient_key, label_values)
        ELSE IF first.form \in {"named", "raw"} THEN
            LET key == normalize_nutrient_key(IF first.form = "raw" THEN "raw_" \o first.name ELSE first.name)
                value == Get(values_dict, key)
            IN  IF IsNone(value) THEN FALSE
                ELSE Compare(value, convert_operator(first.op), first.num)
        ELSE FALSE

\* nutrition_check.format_rdi_threshold: a comparison gets "% RDI" appended,
\* a plain number becomes ">= <number>% RDI"
format_rdi_threshold(threshold_rdi_str) ==
    IF threshold_rdi_str.conn = "number"
    THEN RdiExpr(">=", threshold_rdi_str.atoms[1].num)
    ELSE [conn |-> threshold_rdi_str.conn,
          atoms |-> [i \in 1..Len(threshold_rdi_str.atoms) |->
                        LET a == threshold_rdi_str.atoms[i]
                        IN  IF i = 1 THEN Atom("rdi", a.name, a.op, a.num) ELSE a]]

(***************************************************************************)
(* nutrition_check.evaluate_special_rule.  special_rule is the list of the *)
(* comma-separated comparisons of the cell, each [nutrient, op, num]; the  *)
(* operator is handed to eval as written.                                  *)
(***************************************************************************)
NoSpecialRule == <<>>

evaluate_special_rule(special_rule, values_dict, label_values) ==
    \A i \in 1..Len(special_rule) :
        LET rule == special_rule[i]
            ref_value == Get(values_dict, rule.nutrient)
        IN  /\ ~IsNone(ref_value)
            /\ Compare(ref_value, rule.op, rule.num)
            /\ label_values # NoDict =>
                  LET label_value == Get(label_values, rule.nutrient)
                  IN  ~IsNone(label_value) /\ Compare(label_value, rule.op, rule.num)

(***************************************************************************)
(* The inputs of one submission of the form and the state of show() while  *)
(* it handles the submission.                                              *)
(***************************************************************************)
VARIABLES
    in_list_2,                  \* selected_label is a food group of list 2
    food_state_value,           \* "solid" or "liquid"
    nutrition_check_method,     \* "analysis" (per 100 g/ml) or "label" (per serving)
    actual_serving_size,
    group_serving,              \* group_info["serving_value"] as the file holds it: "number",
                                \* "blank", "text"; "none" when no food group is selected
    ref_value,                  \* the reference amount: the number of the file, or the number
                                \* the operator typed for a blank cell
    is_ref_serving_user_input,
    nutrient_values,            \* the numbers typed in, None for an empty field
    claims,                     \* the rows of the claims table, in file order
    selected_vitamins,          \* st.session_state.selected_vitamins
    submissions,                \* the clicks of the check button in this session
    adjusted_values,            \* the reference-basis dictionary
    label_values,               \* the label-basis dictionary
    pc,                         \* position of show() in the submission
    idx,                        \* next row of claims.iterrows()
    processed_claims,
    report,                     \* st.session_state.current_evaluation_messages_for_report
    message,                    \* the local variable message: "unbound", "fail" or "pass"
    warning_shown,
    results_found,
    locals,                     \* locals of the last evaluated row
    vitamin_mineral_results,    \* the de-duplicated results of the vitamin/mineral pass
    display_size,               \* the reference amount shown with the rounding table
    final_disclaimer_results,   \* what prepare_disclaimers returned
    shown_disclaimers,          \* the disclaimers shown and put into report_data
    r_in, r_kind, r_out, r_pc,  \* rounding harness: input, nutrient type, results, position
    r_next,                     \* rounding harness: a second amount, not below the first
    r_text,                     \* rounding harness: the rounded amount as it is displayed
    t_threshold_str, t_values_dict, t_nutrient_key, t_label_values,
                                \* the arguments of one call of evaluate_threshold
    t_result, t_parts, t_pc,    \* its result, the results of the sides alone, position
    c_values, c_serving_size, c_ref_serving_size, c_is_user_input,
                                \* the arguments of one call of adjust_per_100_to_serving
    c_out, c_pc                 \* its result, position

inputs == <<in_list_2, food_state_value, nutrition_check_method, actual_serving_size,
            group_serving, ref_value, is_ref_serving_user_input, nutrient_values, claims,
            selected_vitamins, submissions>>

loopvars == <<adjusted_values, processed_claims, report, message, warning_shown,
              results_found, locals>>

roundvars == <<r_in, r_kind, r_out, r_pc, r_next, r_text>>

thresholdvars == <<t_threshold_str, t_values_dict, t_nutrient_key, t_label_values,
                   t_result, t_parts, t_pc>>

convertvars == <<c_values, c_serving_size, c_ref_serving_size, c_is_user_input, c_out, c_pc>>

\* the variables of the calls of single functions
callvars == <<roundvars, thresholdvars, convertvars>>

disclaimervars == <<final_disclaimer_results, shown_disclaimers>>

enginevars == <<inputs, label_values, pc, idx, loopvars, vitamin_mineral_results, display_size,
                disclaimervars>>

vars == <<enginevars, callvars>>

Nutrients == {"energy", "protein", "fiber", "sugar", "saturated_fat", "cholesterol", "calcium"}

\* keys of a dictionary whose value is not None
Supplied(d) == {k \in DOMAIN d : ~IsNone(d[k])}

\* "for key, value in nutrient_values.items(): if value is not None:
\*      label_values[key] = round_nutrition_value(value * serving_conversion, key)"
per_serving_label_values(values, serving_size) ==
    [k \in Supplied(values) |->
        round_nutrition_value(RMul(values[k], Rat(serving_size, 100)), k)]

\* lines 556-565: the reference amount the multiplier of the label method scales to
label_method_reference(reference, is_user_input) ==
    IF reference <= 30
    THEN IF is_user_input THEN reference ELSE reference * 2
    ELSE reference

\* lines 603-617: float(group_info["serving_value"]) raised; multiplier 1.0
conversion_fallback ==
    [adjusted |-> create_nutrient_dict(nutrient_values, Num(1)),
     label |-> IF nutrition_check_method = "analysis" THEN EmptyDict ELSE nutrient_values]

\* show(), list-2 branch of the conversion
convert_list_2 ==
    IF group_serving = "text" THEN conversion_fallback
    ELSE IF nutrition_check_method = "analysis"
    THEN [adjusted |-> adjust_per_100_to_serving(nutrient_values, actual_serving_size,
                                                 ref_value, is_ref_serving_user_input),
          label |-> per_serving_label_values(nutrient_values, actual_serving_size)]
    ELSE LET adjusted_multiplier ==
                 Rat(label_method_reference(ref_value, is_ref_serving_user_input),
                     actual_serving_size)
         IN  [adjusted |-> create_nutrient_dict(nutrient_values, adjusted_multiplier),
              label |-> nutrient_values]

\* lines 711-716 and nutrition_cal.prepare_rounded_values_display: the nutrients that
\* get a row of the rounding table
displayed_rows(values) ==
    {k \in Supplied(values) \cap Nutrients :
        ~(nutrition_check_method = "label" /\ is_vitamin_or_mineral(k))}

\* line 757: the reference amount named with the rounding table
display_size_of(reference, is_user_input) ==
    IF reference <= 30 /\ is_user_input THEN reference
    ELSE IF reference <= 30 THEN reference * 2 ELSE reference

\* %RDI per 100 kcal of the vitamins and minerals, rounded by the default branch
rdi_percent_per_100kcal(value, energy_per_100, rdi_value) ==
    round_nutrition_value(
        RMul(RDiv(RMul(value, RDiv(Num(100), energy_per_100)), rdi_value), Num(100)), "1")

\* show(), branch of the conversion for a food outside list 2
convert_not_list_2 ==
    LET scaled == IF nutrition_check_method = "label"
                  THEN create_nutrient_dict(nutrient_values, Rat(100, actual_serving_size))
                  ELSE create_nutrient_dict(nutrient_values, Num(1))
        energy_per_100 == Get(scaled, "energy")
        per_100kcal_values == calculate_per_100kcal(scaled, energy_per_100)
        with_kcal == Update(scaled, per_100kcal_values)
        vm == {k \in Supplied(scaled) : is_vitamin_or_mineral(k) /\ ~IsNone(get_rdi_value(k))}
        vm_values == [x \in {RdiPer100kcalKey(k) : k \in vm} |->
                         LET k == CHOOSE c \in vm : RdiPer100kcalKey(c) = x
                         IN  rdi_percent_per_100kcal(scaled[k], energy_per_100, get_rdi_value(k))]
    IN  [adjusted |-> IF ~IsNone(energy_per_100) /\ RLt(Num(0), energy_per_100)
                      THEN Update(with_kcal, vm_values)
                      ELSE scaled,
         label |-> per_serving_label_values(nutrient_values, actual_serving_size)]

\* show(): adjusted_values["saturated_fat_energy_percent"], when it can be computed
with_saturated_fat_energy_percent(values) ==
    LET percent == calculate_energy_from_saturated_fat(Get(values, "saturated_fat"),
                                                       Get(values, "energy"))
    IN  IF IsNone(percent) THEN values
        ELSE Put(values, "saturated_fat_energy_percent", percent)

\* show(): the label-basis dictionary handed to the claim loop
prepare_label_values ==
    with_saturated_fat_energy_percent(
        IF nutrition_check_method = "analysis" THEN label_values ELSE nutrient_values)

\* show(): the %RDI of one key of label_values, computed from the reference basis
rdi_percent_of(nutrient_key, current_adj_val) ==
    LET thai_rdi_abs == get_rdi_value(nutrient_key)
        computed_rdi == RMul(RDiv(current_adj_val, thai_rdi_abs), Num(100))
    IN  IF IsNone(thai_rdi_abs) THEN Num(0)
        ELSE IF is_vitamin_or_mineral(nutrient_key) THEN round_rdi_percent(computed_rdi)
        ELSE computed_rdi

\* show(): the loop "for nutrient_key in list(label_values.keys())" that adds the
\* <key>_rdi_percent and <key>_rdi_percent_per_100kcal entries to adjusted_values
prepare_rdi_values(values, label) ==
    LET keys == {k \in DOMAIN label : ~IsNone(Get(values, k))}
        energy_per_100 == Get(values, "energy")
        kcal_keys == {k \in keys : /\ ~in_list_2
                                   /\ ~IsNone(get_rdi_value(k))
                                   /\ ~IsNone(energy_per_100)
                                   /\ RLt(Num(0), energy_per_100)}
        rdi_entries == [x \in {RdiKey(k) : k \in keys} |->
                           LET k == CHOOSE c \in keys : RdiKey(c) = x
                           IN  rdi_percent_of(k, values[k])]
        kcal_entries == [x \in {RdiPer100kcalKey(k) : k \in kcal_keys} |->
                            LET k == CHOOSE c \in kcal_keys : RdiPer100kcalKey(c) = x
                            IN  rdi_percent_per_100kcal(values[k], energy_per_100, get_rdi_value(k))]
    IN  Update(Update(values, rdi_entries), kcal_entries)

(***************************************************************************)
(* disclaim_check.check_disclaimers and nutrition_check.prepare_disclaimers *)
(***************************************************************************)
\* disclaimer_rules.csv: the threshold of each nutrient that has a rule
DisclaimerThresholds ==
    [total_fat |-> Num(13), saturated_fat |-> Num(4), cholesterol |-> Num(60),
     sodium |-> Num(360), total_sugars |-> Num(13)]

\* the key of nutrient_values each disclaimer nutrient is read from
DisclaimerSources ==
    [total_fat |-> "fat", saturated_fat |-> "saturated_fat", cholesterol |-> "cholesterol",
     sodium |-> "sodium", total_sugars |-> "sugar"]

\* nutrient_type_map: the rounding rule of each disclaimer nutrient
DisclaimerTypes ==
    [total_fat |-> "fat", saturated_fat |-> "saturated_fat", cholesterol |-> "cholesterol",
     sodium |-> "sodium", total_sugars |-> "sugar"]

\* "float(values.get(key, 0) or 0) * factor" for the five disclaimer nutrients
disclaimer_values(values, factor) ==
    [k \in DOMAIN DisclaimerSources |->
        IF IsNone(Get(values, DisclaimerSources[k])) THEN Num(0)
        ELSE RMul(values[DisclaimerSources[k]], factor)]

\* variant of check_disclaimers that also reports an amount equal to the threshold
check_disclaimers_inclusive(nutrients) ==
    {k \in DOMAIN nutrients \cap DOMAIN DisclaimerThresholds :
        RLe(DisclaimerThresholds[k], nutrients[k])}

\* disclaim_check.check_disclaimers: the nutrients strictly above their threshold
check_disclaimers(nutrients) ==
    {k \in DOMAIN nutrients \cap DOMAIN DisclaimerThresholds :
        RLt(DisclaimerThresholds[k], nutrients[k])}

\* lines 2573-2574: the reference amount quoted in a disclaimer message
display_ref_size_of(ref_serving_size) ==
    IF ref_serving_size <= 30 THEN ref_serving_size * 2 ELSE ref_serving_size

\* lines 2452-2476: a food outside list 2, the reference values only
disclaimers_not_list_2(reference) ==
    {[nutrient |-> k, label_value |-> Num(0), reference_value |-> reference[k],
      threshold |-> DisclaimerThresholds[k], in_label |-> FALSE, in_reference |-> TRUE,
      display_ref_size |-> 100] : k \in check_disclaimers(reference)}

\* lines 2479-2612: a food of list 2, the label values and the reference values
disclaimers_list_2(label, reference, ref_serving_size) ==
    {[nutrient |-> k,
      label_value |-> round_nutrition_value(label[k], DisclaimerTypes[k]),
      reference_value |-> round_nutrition_value(reference[k], DisclaimerTypes[k]),
      threshold |-> DisclaimerThresholds[k],
      in_label |-> k \in check_disclaimers(label),
      in_reference |-> k \in check_disclaimers(reference),
      display_ref_size |-> IF k \in check_disclaimers(reference)
                           THEN display_ref_size_of(ref_serving_size) ELSE 0] :
        k \in check_disclaimers(label) \cup check_disclaimers(reference)}

\* nutrition_check.prepare_disclaimers; selected_in_list_2 is selected_label naming a food
\* group, ref_serving_size is group_info["serving_value"]
prepare_disclaimers(values, adjusted, selected_in_list_2, serving_size, ref_serving_size, check_method) ==
    IF ~selected_in_list_2
    THEN disclaimers_not_list_2(disclaimer_values(adjusted, Num(1)))
    ELSE disclaimers_list_2(
             disclaimer_values(values, IF check_method = "analysis" /\ serving_size > 0
                                       THEN Rat(serving_size, 100) ELSE Num(1)),
             disclaimer_values(adjusted, Num(1)),
             ref_serving_size)

(***************************************************************************)
(* The claims table.  A row is a record of the columns the loop reads.     *)
(***************************************************************************)
Rule(nutrient, claim_text, threshold, threshold_rdi, threshold_100kcal, threshold_rdi_100kcal, special_rule, saturate_fat_energy) ==
    [nutrient |-> nutrient, claim_text |-> claim_text, threshold |-> threshold,
     threshold_rdi |-> threshold_rdi, threshold_100kcal |-> threshold_100kcal,
     threshold_rdi_100kcal |-> threshold_rdi_100kcal, special_rule |-> special_rule,
     saturate_fat_energy |-> saturate_fat_energy]

\* the claim words the loop looks for in claim_text
IsHighClaim(claim_text) == claim_text = "high"

IsSourceClaim(claim_text) == claim_text = "source"

IsFreeClaim(claim_text) == claim_text = "free"

\* '"fiber" in str(nutrient).lower() or <Thai fiber> in str(nutrient)'
IsFiberName(nutrient) == nutrient \in {"fiber", "th_fiber"}

HighFiberPer100kcal == Num(3)

SourceFiberPer100kcal == Rat(3, 2)

\* variant of liquid_fiber_threshold_met that uses the "source of" amount for every claim
liquid_fiber_source_only(claim_text, value) ==
    (IsHighClaim(claim_text) \/ IsSourceClaim(claim_text)) /\ RLe(SourceFiberPer100kcal, value)

\* the hard-coded liquid-fibre comparison "fiber_per_100kcal >= 3.0 / 1.5";
\* FALSE for a claim text that is neither "high" nor "source of"
liquid_fiber_threshold_met(claim_text, value) ==
    IF IsHighClaim(claim_text) THEN RLe(HighFiberPer100kcal, value)
    ELSE IF IsSourceClaim(claim_text) THEN RLe(SourceFiberPer100kcal, value)
    ELSE FALSE

(***************************************************************************)
(* One iteration of "for idx, row in claims.iterrows()" in show().  st is   *)
(* the state the iteration starts from: the fields of loopvars plus        *)
(* crashed, which records an exception that left the loop.  The steps are  *)
(* named after the local variables of the source.                          *)
(***************************************************************************)
claim_key_of(row) == <<row.nutrient, row.claim_text>>

\* lines 1086-1095: the unrounded fibre per 100 kcal overwrites the rounded entry
with_fiber_per_100kcal(values, nutrient) ==
    LET energy == Get(values, "energy")
        fiber == Get(values, "fiber")
    IN  IF IsFiberName(nutrient) /\ ~IsNone(fiber) /\ ~IsNone(energy) /\ RLt(Num(0), energy)
        THEN Put(values, "fiber_per_100kcal", RMul(fiber, RDiv(Num(100), energy)))
        ELSE values

\* variant of either_basis that asks for both bases
either_basis_and(adjusted_result, per_100kcal_result) == adjusted_result /\ per_100kcal_result

\* line 1268: outside list 2 a protein or fibre rule passes on either basis
either_basis(adjusted_result, per_100kcal_result) == adjusted_result \/ per_100kcal_result

\* lines 1142-1287: the verdict of the threshold stage on the reference basis
threshold_stage(row, values, nutrient_key) ==
    LET liquid_fiber == nutrient_key = "fiber" /\ ~in_list_2 /\ food_state_value = "liquid"
        fiber_value == Get(values, "fiber")
        per_100kcal_key == Per100kcalKey(nutrient_key)
        primary == evaluate_threshold(row.threshold, values, nutrient_key, NoDict)
        per_100kcal_result ==
            evaluate_threshold(row.threshold_100kcal,
                               [k \in {nutrient_key} |-> Get(values, per_100kcal_key)],
                               nutrient_key, NoDict)
        fiber_per_100kcal == Get(values, "fiber_per_100kcal")
        before_list_2 ==
            IF IsNaN(row.threshold) THEN
                IF liquid_fiber
                THEN IF IsNone(fiber_value) THEN FALSE
                     ELSE liquid_fiber_threshold_met(row.claim_text, fiber_value)
                ELSE TRUE
            ELSE IF ~in_list_2 /\ ~IsNaN(row.threshold_100kcal)
                    /\ nutrient_key \in {"protein", "fiber"}
                    /\ per_100kcal_key \in DOMAIN values
            THEN IF liquid_fiber
                 THEN IF IsNone(fiber_value) \/ IsNone(fiber_per_100kcal) THEN FALSE
                      ELSE liquid_fiber_threshold_met(row.claim_text, fiber_per_100kcal)
                 ELSE either_basis(primary, per_100kcal_result)
            ELSE IF liquid_fiber THEN FALSE ELSE primary
    IN  IF in_list_2 /\ nutrient_key = "fiber" /\ ~IsNone(fiber_value)
           /\ food_state_value = "liquid"
           /\ (IsHighClaim(row.claim_text) \/ IsSourceClaim(row.claim_text))
        THEN liquid_fiber_threshold_met(row.claim_text, fiber_value)
        ELSE before_list_2

\* lines 1290-1320: the %RDI threshold on the reference basis
rdi_stage(row, values, nutrient_key) ==
    LET rdi_result ==
            IF IsNaN(row.threshold_rdi) THEN TRUE
            ELSE IF RdiKey(nutrient_key) \in DOMAIN values
            THEN evaluate_threshold(format_rdi_threshold(row.threshold_rdi), values,
                                    nutrient_key, NoDict)
            ELSE FALSE
        per_100kcal_rdi_result ==
            /\ ~in_list_2
            /\ ~IsNaN(row.threshold_rdi_100kcal)
            /\ is_vitamin_or_mineral(nutrient_key)
            /\ evaluate_threshold(row.threshold_rdi_100kcal,
                                  [k \in {RdiKey(nutrient_key)} |->
                                      Get(values, RdiPer100kcalKey(nutrient_key))],
                                  nutrient_key, NoDict)
    IN  rdi_result \/ per_100kcal_rdi_result

\* lines 1326-1335 and 1383-1389: energy from saturated fat above 10 % of the energy
saturated_fat_energy_exceeded(row, values) ==
    /\ row.saturate_fat_energy
    /\ ~IsNone(Get(values, "saturated_fat"))
    /\ ~IsNone(Get(values, "saturated_fat_energy_percent"))
    /\ RLt(Num(10), Get(values, "saturated_fat_energy_percent"))

\* lines 1342-1356: label_comparison, the label basis with its own unrounded %RDI
label_comparison_of(label) ==
    LET keys == {k \in Supplied(label) :
                    /\ (k \in {"protein", "fiber"} \/ is_vitamin_or_mineral(k))
                    /\ ~IsNone(get_rdi_value(k))}
    IN  Update(label, [x \in {RdiKey(k) : k \in keys} |->
                          LET k == CHOOSE c \in keys : RdiKey(c) = x
                          IN  RMul(RDiv(label[k], get_rdi_value(k)), Num(100))])

\* lines 1338-1393: the verdict on the label basis
label_stage(row, label, nutrient_key) ==
    LET label_comparison == label_comparison_of(label)
        label_threshold_result ==
            IF IsNaN(row.threshold) THEN TRUE
            ELSE evaluate_threshold(row.threshold, label_comparison, nutrient_key, NoDict)
        label_rdi_result ==
            IF IsNaN(row.threshold_rdi) THEN TRUE
            ELSE IF RdiKey(nutrient_key) \in DOMAIN label_comparison
            THEN evaluate_threshold(format_rdi_threshold(row.threshold_rdi), label_comparison,
                                    nutrient_key, NoDict)
            ELSE FALSE
    IN  /\ label_threshold_result
        /\ label_rdi_result
        /\ ~saturated_fat_energy_exceeded(row, label)

\* variant of both_bases that is content with one basis
both_bases_or(adjusted_result, label_result) == adjusted_result \/ label_result

\* line 1399: in list 2 a rule passes only when both bases pass
both_bases(adjusted_result, label_result) == adjusted_result /\ label_result

\* lines 1406-1412: "sugar free" under the analysis method needs both rounded sugars to be 0
sugar_free_ok(row, values, label, nutrient_key) ==
    (nutrient_key = "sugar" /\ IsFreeClaim(row.claim_text) /\ nutrition_check_method = "analysis")
        => (/\ "sugar" \in DOMAIN label
            /\ REq(label["sugar"], Num(0))
            /\ ~IsNone(Get(values, "sugar"))
            /\ REq(Get(values, "sugar"), Num(0)))

\* line 1422: the special rule for a reference serving of at most 30
small_reference_special_rule(special_rule, raw_values, values, label) ==
    \/ evaluate_special_rule(special_rule, raw_values, NoDict)
    \/ evaluate_special_rule(special_rule, values, label)

\* lines 1415-1430
special_rule_stage(row, values, label) ==
    IF in_list_2
    THEN IF ref_value <= 30
         THEN small_reference_special_rule(row.special_rule, nutrient_values, values, label)
         ELSE evaluate_special_rule(row.special_rule, values, label)
    ELSE evaluate_special_rule(row.special_rule, values, NoDict)

NoLocals ==
    [evaluated |-> FALSE, row |-> 0, threshold_stage |-> FALSE, adjusted_result |-> FALSE,
     label_result |-> FALSE, special_rule_checked |-> FALSE, result |-> FALSE]

Entry(row, is_success) ==
    [nutrient |-> row.nutrient, claim_text |-> row.claim_text, is_success |-> is_success]

\* lines 1471-1506: the success branch reads the local variable message for a
\* liquid fibre rule outside list 2 that has a per-100-kcal threshold
success_reads_message(row, values, nutrient_key) ==
    /\ ~in_list_2
    /\ ~IsNaN(row.threshold_100kcal)
    /\ nutrient_key = "fiber"
    /\ food_state_value = "liquid"
    /\ ~IsNone(Get(values, Per100kcalKey(nutrient_key)))
    /\ (IsHighClaim(row.claim_text) \/ IsSourceClaim(row.claim_text))

\* adjusted_values.get("fiber_per_100kcal", 0)
fiber_per_100kcal_or_zero(values) ==
    IF "fiber_per_100kcal" \in DOMAIN values THEN values["fiber_per_100kcal"] ELSE Num(0)

\* lines 1577-1590: a passing liquid fibre rule is dropped without a report entry
success_skipped(row, values, nutrient_key) ==
    /\ nutrient_key = "fiber"
    /\ food_state_value = "liquid"
    /\ ~in_list_2
    /\ (IsHighClaim(row.claim_text) \/ IsSourceClaim(row.claim_text))
    /\ ~liquid_fiber_threshold_met(row.claim_text, fiber_per_100kcal_or_zero(values))

\* lines 1434-1649: "if result:"
success_branch(st, row, values, nutrient_key, loc) ==
    LET reads == success_reads_message(row, values, nutrient_key)
        met == liquid_fiber_threshold_met(row.claim_text, Get(values, "fiber_per_100kcal"))
        new_message == IF reads /\ met THEN "pass" ELSE st.message
        demoted == /\ IsNaN(row.threshold) /\ ~IsNaN(row.threshold_100kcal)
                   /\ success_skipped(row, values, nutrient_key)
        new_locals == [loc EXCEPT !.result = ~demoted]
    IN  IF reads /\ st.message = "unbound"
        THEN [st EXCEPT !.adjusted_values = values, !.results_found = TRUE,
                        !.locals = new_locals, !.crashed = TRUE]
        ELSE IF success_skipped(row, values, nutrient_key)
        THEN [st EXCEPT !.adjusted_values = values, !.results_found = TRUE,
                        !.locals = new_locals, !.message = new_message]
        ELSE [st EXCEPT !.adjusted_values = values, !.results_found = TRUE,
                        !.locals = new_locals, !.message = new_message,
                        !.report = Append(st.report, Entry(row, TRUE))]

\* lines 1650-1753: "else:"; a liquid fibre rule outside list 2 is re-decided here
\* on the unrounded fibre per 100 kcal
failure_branch(st, row, values, nutrient_key, loc) ==
    LET fiber_per_100kcal == Get(values, "fiber_per_100kcal")
        passed == /\ nutrient_key = "fiber"
                  /\ food_state_value = "liquid"
                  /\ ~in_list_2
                  /\ ~IsNone(fiber_per_100kcal)
                  /\ liquid_fiber_threshold_met(row.claim_text, fiber_per_100kcal)
        new_message == IF passed THEN "pass" ELSE "fail"
    IN  [st EXCEPT !.adjusted_values = values, !.results_found = TRUE, !.locals = loc,
                   !.message = new_message,
                   !.report = Append(st.report, Entry(row, new_message = "pass"))]

\* lines 1434 and 1650: the two branches on the final result of the row
report_row(st, row, values, nutrient_key, loc) ==
    IF loc.result THEN success_branch(st, row, values, nutrient_key, loc)
    ELSE failure_branch(st, row, values, nutrient_key, loc)

\* lines 1414-1432: the special rule is looked at only for a rule that passed so far
apply_special_rule(st, row, row_index, values, nutrient_key, stage, adjusted_result, label_result, before_special) ==
    report_row(st, row, values, nutrient_key,
               [evaluated |-> TRUE, row |-> row_index, threshold_stage |-> stage,
                adjusted_result |-> adjusted_result, label_result |-> label_result,
                special_rule_checked |-> before_special /\ row.special_rule # NoSpecialRule,
                result |-> IF before_special /\ row.special_rule # NoSpecialRule
                           THEN special_rule_stage(row, values, label_values)
                           ELSE before_special])

\* lines 1395-1412: the two bases are combined, then the sugar-free condition
combine_bases(st, row, row_index, values, nutrient_key, stage, adjusted_result, label_result) ==
    apply_special_rule(st, row, row_index, values, nutrient_key, stage, adjusted_result,
                       label_result,
                       /\ IF in_list_2 /\ DOMAIN label_values # {}
                          THEN both_bases(adjusted_result, label_result)
                          ELSE adjusted_result
                       /\ sugar_free_ok(row, values, label_values, nutrient_key))

\* lines 1323-1393: the saturated-fat energy condition, then the label basis
on_both_bases(st, row, row_index, values, nutrient_key, stage, with_rdi) ==
    combine_bases([st EXCEPT !.warning_shown =
                       st.warning_shown \/ (with_rdi /\ saturated_fat_energy_exceeded(row, values))],
                  row, row_index, values, nutrient_key, stage,
                  with_rdi /\ ~saturated_fat_energy_exceeded(row, values),
                  /\ in_list_2
                  /\ DOMAIN label_values # {}
                  /\ label_stage(row, label_values, nutrient_key))

\* lines 1141-1323: the threshold stage and the %RDI stage on the reference basis
on_reference_basis(st, row, row_index, values, nutrient_key, stage) ==
    on_both_bases(st, row, row_index, values, nutrient_key, stage,
                  stage /\ rdi_stage(row, values, nutrient_key))

\* lines 1112-1116: a rule whose nutrient was not supplied is skipped
evaluate_claim(st, row, row_index, values, nutrient_key) ==
    IF IsNone(Get(values, nutrient_key))
    THEN [st EXCEPT !.adjusted_values = values]
    ELSE on_reference_basis(st, row, row_index, values, nutrient_key,
                            threshold_stage(row, values, nutrient_key))

\* lines 1066-1112: the duplicate check, then the row is evaluated
EvalRow(st, row, row_index) ==
    IF claim_key_of(row) \in st.processed_claims THEN st
    ELSE evaluate_claim([st EXCEPT !.processed_claims = st.processed_claims \cup {claim_key_of(row)}],
                        row, row_index,
                        with_fiber_per_100kcal(st.adjusted_values, row.nutrient),
                        normalize_nutrient_key(row.nutrient))

(***************************************************************************)
(* The vitamin and mineral pass.                                           *)
(***************************************************************************)
\* the part of RDI_MAPPING the pass looks up: key -> Thai name
RDI_MAPPING == [calcium |-> "th_calcium"]

\* exact_match_map of is_same_vitamin_mineral: Thai name -> its aliases
exact_match_map == [th_calcium |-> {"calcium", "th_calcium"}]

is_same_vitamin_mineral(user_input, claim_nutrient) ==
    \/ user_input = claim_nutrient
    \/ \E main_nutrient \in DOMAIN exact_match_map :
          /\ user_input \in exact_match_map[main_nutrient] \cup {main_nutrient}
          /\ claim_nutrient \in exact_match_map[main_nutrient] \cup {main_nutrient}

\* the if/elif chain on the operator found by re.search in a %RDI threshold
vm_compare(percent, operator, threshold_value) ==
    Compare(percent, convert_operator(operator), threshold_value)

\* nutrition_check.check_vitamin_mineral_claims, the verdict for one row
vm_claim_valid(claim_row, percent_rdi, label_percent_rdi, percent_rdi_per_100kcal) ==
    LET t == claim_row.threshold_rdi
        k == claim_row.threshold_rdi_100kcal
        operator == IF t.conn = "number" THEN ">=" ELSE t.atoms[1].op
        on_adjusted == ~IsNaN(t) /\ vm_compare(percent_rdi, operator, t.atoms[1].num)
        claim_valid_label == /\ ~IsNaN(t)
                             /\ ~IsNone(label_percent_rdi)
                             /\ vm_compare(label_percent_rdi, operator, t.atoms[1].num)
        per_100kcal_valid == /\ ~IsNaN(k)
                             /\ k.conn # "number"
                             /\ vm_compare(percent_rdi_per_100kcal, k.atoms[1].op, k.atoms[1].num)
        claim_valid_adjusted == on_adjusted \/ per_100kcal_valid
    IN  IF in_list_2 /\ ~IsNone(label_percent_rdi)
        THEN claim_valid_adjusted /\ claim_valid_label
        ELSE claim_valid_adjusted

\* the results check_vitamin_mineral_claims appends for one supplied vitamin_key
vm_claims_for(vitamin_key, values, label) ==
    LET thai_name == IF vitamin_key \in DOMAIN RDI_MAPPING THEN RDI_MAPPING[vitamin_key]
                     ELSE vitamin_key
        rdi_value == get_rdi_value(vitamin_key)
        adjusted_value == IF vitamin_key \in DOMAIN values THEN values[vitamin_key] ELSE Num(0)
        percent_rdi == round_rdi_percent(RMul(RDiv(adjusted_value, rdi_value), Num(100)))
        per_100kcal_key == RdiPer100kcalKey(vitamin_key)
        percent_rdi_per_100kcal ==
            IF per_100kcal_key \in DOMAIN values THEN values[per_100kcal_key] ELSE Num(0)
        label_percent_rdi ==
            IF in_list_2 /\ ~IsNone(Get(label, vitamin_key))
            THEN round_rdi_percent(RMul(RDiv(label[vitamin_key], rdi_value), Num(100)))
            ELSE None
        matching_claims ==
            SelectSeq(claims, LAMBDA row : is_same_vitamin_mineral(thai_name, row.nutrient))
    IN  IF IsNone(rdi_value) \/ IsNone(adjusted_value) THEN <<>>
        ELSE [i \in 1..Len(matching_claims) |->
                 [nutrient |-> matching_claims[i].nutrient,
                  claim_text |-> matching_claims[i].claim_text,
                  is_success |-> vm_claim_valid(matching_claims[i], percent_rdi,
                                                label_percent_rdi, percent_rdi_per_100kcal)]]

\* the vitamin and mineral keys of the form, in the order of nutrient_values
VitaminMineralKeys == <<"calcium">>

RECURSIVE vm_claims_from(_, _, _)
vm_claims_from(i, values, label) ==
    IF i > Len(VitaminMineralKeys) THEN <<>>
    ELSE (IF IsNone(Get(nutrient_values, VitaminMineralKeys[i])) THEN <<>>
          ELSE vm_claims_for(VitaminMineralKeys[i], values, label))
         \o vm_claims_from(i + 1, values, label)

check_vitamin_mineral_claims(values, label) == vm_claims_from(1, values, label)

\* show(), lines 1757-1772: keep the first result of every nutrient and claim text
RECURSIVE dedup_vm_results(_, _)
dedup_vm_results(results, processed_vm_claims) ==
    IF results = <<>> THEN <<>>
    ELSE LET vm_key == <<Head(results).nutrient, Head(results).claim_text>>
         IN  IF vm_key \in processed_vm_claims
             THEN dedup_vm_results(Tail(results), processed_vm_claims)
             ELSE <<Head(results)>> \o dedup_vm_results(Tail(results), processed_vm_claims \cup {vm_key})

(***************************************************************************)
(* Bounds and input domains.                                               *)
(***************************************************************************)
MaxRules == 2          \* rows of the claims table

RoundFine == 120       \* rounding inputs 0, 0.05, ..., RoundFine / 20

RoundCoarse == 40      \* rounding inputs 0, 5, ..., 5 * RoundCoarse

RoundHalves == 260     \* rounding inputs 0, 0.5, ..., RoundHalves / 2

SaturatedFatAtMost2 == <<[nutrient |-> "saturated_fat", op |-> "<=", num |-> Num(2)]>>

ProteinSource ==
    Rule("th_protein", "source", Bare(">=", Num(3)), NaN, Bare(">=", Rat(5, 2)), NaN,
         NoSpecialRule, FALSE)

FiberHigh ==
    Rule("th_fiber", "high", Bare(">=u", Num(6)), NaN, Bare(">=u", Num(3)), NaN,
         NoSpecialRule, FALSE)

SugarFree ==
    Rule("th_sugar", "free", Bare("<", Rat(1, 2)), NaN, NaN, NaN, NoSpecialRule, FALSE)

CholesterolLow ==
    Rule("th_cholesterol", "low", Bare("<=", Num(20)), NaN, NaN, NaN,
         SaturatedFatAtMost2, FALSE)

CalciumSource ==
    Rule("calcium", "source", NaN, Bare(">=u", Num(15)), NaN, RdiExpr(">=", Num(5)),
         NoSpecialRule, FALSE)

InertProtein ==
    Rule("th_protein", "high", NaN, NaN, NaN, NaN, NoSpecialRule, FALSE)

\* a fibre rule without a threshold per 100 kcal
FiberHighPlain ==
    Rule("th_fiber", "high", Bare(">=u", Num(6)), NaN, NaN, NaN, NoSpecialRule, FALSE)

RulePool ==
    {ProteinSource, FiberHigh, SugarFree, CholesterolLow, CalciumSource, InertProtein,
     FiberHighPlain}

Tables == UNION {[1..n -> RulePool] : n \in 1..MaxRules}

\* the numbers a field of the form can hold; None is the empty field
FieldValues ==
    [energy |-> {None, Num(40), Num(400)},
     protein |-> {None, Num(2), Num(4)},
     fiber |-> {None, Num(2), Num(7)},
     sugar |-> {None, Rat(2, 5), Rat(8, 5)},
     saturated_fat |-> {None, Rat(3, 2), Rat(21, 5)},
     cholesterol |-> {None, Num(5)},
     calcium |-> {None, Num(150), Rat(1004, 5)}]

\* the nutrients the rows of a table read
ReadBy(table) ==
    {"energy"}
    \cup {normalize_nutrient_key(table[i].nutrient) : i \in 1..Len(table)}
    \cup UNION {{table[i].special_rule[j].nutrient : j \in 1..Len(table[i].special_rule)} :
                  i \in 1..Len(table)}

\* the forms that fill in only fields of the set read: every other field is empty
Forms(read) ==
    {[energy |-> e, protein |-> p, fiber |-> f, sugar |-> s, saturated_fat |-> sf,
      cholesterol |-> ch, calcium |-> ca] :
        e \in FieldValues.energy,
        p \in IF "protein" \in read THEN FieldValues.protein ELSE {None},
        f \in IF "fiber" \in read THEN FieldValues.fiber ELSE {None},
        s \in IF "sugar" \in read THEN FieldValues.sugar ELSE {None},
        sf \in IF "saturated_fat" \in read THEN FieldValues.saturated_fat ELSE {None},
        ch \in IF "cholesterol" \in read THEN FieldValues.cholesterol ELSE {None},
        ca \in IF "calcium" \in read THEN FieldValues.calcium ELSE {None}}

\* the reference servings of the food groups: <<serving_value, typed in by the user>>
ReferenceServings == {<<30, FALSE>>, <<30, TRUE>>, <<50, FALSE>>}

ServingSizes == {25, 100}

RoundInputs ==
    {Rat(n, 20) : n \in 0..RoundFine} \cup {Num(5 * n) : n \in 0..RoundCoarse}
    \cup {Rat(n, 2) : n \in 0..RoundHalves}

RoundKinds ==
    {"energy", "saturated_fat", "trans_fat", "cholesterol", "protein", "sodium", "calcium",
     "rdi_percent"}

(***************************************************************************)
(* The claim check of one submitted form.                                  *)
(***************************************************************************)
\* no call of a rounding function is under way
RoundIdle ==
    /\ r_in = None /\ r_kind = "" /\ r_out = <<>> /\ r_pc = "idle"
    /\ r_next = None /\ r_text = <<>>

\* no call of evaluate_threshold is under way
ThresholdIdle ==
    /\ t_threshold_str = NaN /\ t_values_dict = EmptyDict /\ t_nutrient_key = ""
    /\ t_label_values = NoDict /\ t_result = FALSE /\ t_parts = <<>> /\ t_pc = "idle"

\* no call of adjust_per_100_to_serving is under way
ConvertIdle ==
    /\ c_values = EmptyDict /\ c_serving_size = 0 /\ c_ref_serving_size = 0
    /\ c_is_user_input = FALSE /\ c_out = EmptyDict /\ c_pc = "idle"

\* the form has been submitted and nothing has been computed from it
\* lines 452-462: the vitamins and minerals of the form are added to the list the
\* session keeps
entered_vitamins(selected, values) ==
    selected \cup {k \in Supplied(values) : is_vitamin_or_mineral(k)}

\* line 490 with no effect: the list is left as the session holds it
keep_messages(messages) == messages

\* line 490: the list of messages for the report is emptied when a check begins
clear_messages(messages) == <<>>

Submitted ==
    /\ adjusted_values = EmptyDict
    /\ label_values = EmptyDict
    /\ pc = "submitted"
    /\ idx = 1
    /\ processed_claims = {}
    /\ report = <<>>
    /\ message = "unbound"
    /\ warning_shown = FALSE
    /\ results_found = FALSE
    /\ locals = NoLocals
    /\ vitamin_mineral_results = <<>>
    /\ display_size = 0
    /\ final_disclaimer_results = {}
    /\ shown_disclaimers = {}

Init ==
    /\ in_list_2 \in BOOLEAN
    /\ food_state_value \in {"solid", "liquid"}
    /\ in_list_2 => food_state_value = "solid"
    /\ nutrition_check_method \in {"analysis", "label"}
    /\ actual_serving_size \in ServingSizes
    /\ \E g \in ReferenceServings :
          /\ ref_value = (IF in_list_2 THEN g[1] ELSE 0)
          /\ is_ref_serving_user_input = (in_list_2 /\ g[2])
          /\ group_serving = (IF ~in_list_2 THEN "none" ELSE IF g[2] THEN "blank" ELSE "number")
    /\ claims \in Tables
    /\ nutrient_values \in Forms(ReadBy(claims))
    /\ selected_vitamins = entered_vitamins({}, nutrient_values)
    /\ submissions = 1
    /\ Submitted
    /\ RoundIdle /\ ThresholdIdle /\ ConvertIdle

\* lines 320-337: the cell of the reference amount is blank and the operator typed no number
reference_missing == in_list_2 /\ group_serving = "blank" /\ ~is_ref_serving_user_input

\* lines 753-757: the rounding table of a food of list 2 has a row to show
names_display_size == in_list_2 /\ displayed_rows(nutrient_values) # {}

\* lines 320-337 and 487-805: the reference amount is settled, the list of messages is
\* emptied, the two dictionaries are built from the form and the rounding table is shown
Convert ==
    /\ pc = "submitted"
    /\ IF reference_missing
       THEN /\ pc' = "awaiting_reference"
            /\ UNCHANGED <<adjusted_values, label_values, display_size, report>>
       ELSE /\ report' = clear_messages(report)
            /\ LET c == IF in_list_2 THEN convert_list_2 ELSE convert_not_list_2
               IN  /\ adjusted_values' = c.adjusted
                   /\ label_values' = c.label
            /\ pc' = (IF names_display_size /\ group_serving = "text"
                      THEN "display_crashed" ELSE "converted")
            /\ display_size' = (IF names_display_size /\ group_serving # "text"
                                THEN display_size_of(ref_value, is_ref_serving_user_input)
                                ELSE display_size)
    /\ UNCHANGED <<inputs, idx, processed_claims, message, warning_shown,
                   results_found, locals, vitamin_mineral_results, disclaimervars, callvars>>

\* lines 821-984: the early return, the saturated-fat energy share and the %RDI entries
Prepare ==
    /\ pc = "converted"
    /\ IF ~IsNone(nutrient_values["saturated_fat"]) /\ IsNone(nutrient_values["energy"])
       THEN /\ pc' = "stopped"
            /\ UNCHANGED <<adjusted_values, label_values, final_disclaimer_results>>
       ELSE /\ pc' = "loop"
            /\ final_disclaimer_results' =
                  prepare_disclaimers(nutrient_values,
                                      with_saturated_fat_energy_percent(adjusted_values),
                                      in_list_2, actual_serving_size, ref_value,
                                      nutrition_check_method)
            /\ label_values' = prepare_label_values
            /\ adjusted_values' =
                  prepare_rdi_values(with_saturated_fat_energy_percent(adjusted_values),
                                     prepare_label_values)
    /\ UNCHANGED <<inputs, idx, processed_claims, report, message, warning_shown,
                   results_found, locals, vitamin_mineral_results, display_size,
                   shown_disclaimers, callvars>>

\* the state of the loop as the record EvalRow works on
LoopState ==
    [adjusted_values |-> adjusted_values, processed_claims |-> processed_claims,
     report |-> report, message |-> message, warning_shown |-> warning_shown,
     results_found |-> results_found, locals |-> locals, crashed |-> FALSE]

\* lines 1066-1753: one row of the claims table
EvalRule ==
    /\ pc = "loop"
    /\ idx <= Len(claims)
    /\ LET st == EvalRow(LoopState, claims[idx], idx)
       IN  /\ adjusted_values' = st.adjusted_values
           /\ processed_claims' = st.processed_claims
           /\ report' = st.report
           /\ message' = st.message
           /\ warning_shown' = st.warning_shown
           /\ results_found' = st.results_found
           /\ locals' = st.locals
           /\ pc' = (IF st.crashed THEN "crashed" ELSE "loop")
           /\ idx' = (IF st.crashed THEN idx ELSE idx + 1)
    /\ UNCHANGED <<inputs, label_values, vitamin_mineral_results, display_size, disclaimervars,
                   callvars>>

\* lines 1757-1776: the vitamin and mineral pass over the whole table
VitaminMineralPass ==
    /\ pc = "loop"
    /\ idx > Len(claims)
    /\ LET vm_results == check_vitamin_mineral_claims(adjusted_values, label_values)
       IN  /\ vitamin_mineral_results' = dedup_vm_results(vm_results, {})
           /\ results_found' = (results_found \/ vm_results # <<>>)
    /\ pc' = "vm_done"
    /\ UNCHANGED <<inputs, adjusted_values, label_values, idx, processed_claims, report,
                   message, warning_shown, locals, display_size, disclaimervars, callvars>>

\* lines 1783-1937: nothing found, or the results are listed and the report is built
Finish ==
    /\ pc = "vm_done"
    /\ IF results_found
       THEN /\ report' = report \o vitamin_mineral_results
            /\ shown_disclaimers' = final_disclaimer_results
            /\ pc' = "reported"
       ELSE /\ pc' = "no_results"
            /\ UNCHANGED <<report, shown_disclaimers>>
    /\ UNCHANGED <<inputs, adjusted_values, label_values, idx, processed_claims, message,
                   warning_shown, results_found, locals, vitamin_mineral_results, display_size,
                   final_disclaimer_results, callvars>>

Next == Convert \/ Prepare \/ EvalRule \/ VitaminMineralPass \/ Finish

Spec == Init /\ [][Next]_vars

(***************************************************************************)
(* Submissions for a food group whose reference amount cannot be used      *)
(***************************************************************************)
\* <<the serving_value cell, the number read or typed, typed in by the operator>>: a cell
\* holding 0, a blank cell with 0 typed, a blank cell with nothing typed, a cell of text
UnusableReferences ==
    {<<"number", 0, FALSE>>, <<"blank", 0, TRUE>>, <<"blank", 0, FALSE>>, <<"text", 0, FALSE>>}

InitReference ==
    /\ in_list_2 = TRUE
    /\ food_state_value = "solid"
    /\ nutrition_check_method \in {"analysis", "label"}
    /\ actual_serving_size \in ServingSizes
    /\ \E g \in UnusableReferences :
          /\ group_serving = g[1]
          /\ ref_value = g[2]
          /\ is_ref_serving_user_input = g[3]
    /\ claims \in [1..1 -> RulePool]
    /\ nutrient_values \in Forms(ReadBy(claims))
    /\ selected_vitamins = entered_vitamins({}, nutrient_values)
    /\ submissions = 1
    /\ Submitted
    /\ RoundIdle /\ ThresholdIdle /\ ConvertIdle

SpecReference == InitReference /\ [][Next]_vars

(***************************************************************************)
(* Several submissions in one session.  show() runs again for every click  *)
(* of the button: its local variables start afresh, st.session_state is    *)
(* kept.                                                                   *)
(***************************************************************************)
MaxSubmissions == 2    \* clicks of the check button in one session

\* the claims tables of the sessions
SessionTables == {<<CalciumSource>>, <<SugarFree, FiberHigh>>}

\* show() has returned, stopped or raised
EndOfRun ==
    {"reported", "no_results", "crashed", "stopped", "awaiting_reference", "display_crashed"}

InitSession ==
    /\ Init
    /\ claims \in SessionTables

\* lines 228-490: the form is filled in again and the button is clicked; the session
\* keeps selected_vitamins and current_evaluation_messages_for_report
Resubmit ==
    /\ pc \in EndOfRun
    /\ submissions < MaxSubmissions
    /\ submissions' = submissions + 1
    /\ in_list_2' \in BOOLEAN
    /\ food_state_value' \in {"solid", "liquid"}
    /\ in_list_2' => food_state_value' = "solid"
    /\ nutrition_check_method' \in {"analysis", "label"}
    /\ actual_serving_size' \in ServingSizes
    /\ \E g \in ReferenceServings :
          /\ ref_value' = (IF in_list_2' THEN g[1] ELSE 0)
          /\ is_ref_serving_user_input' = (in_list_2' /\ g[2])
          /\ group_serving' = (IF ~in_list_2' THEN "none" ELSE IF g[2] THEN "blank" ELSE "number")
    /\ claims' \in SessionTables
    /\ nutrient_values' \in Forms(ReadBy(claims'))
    /\ selected_vitamins' = entered_vitamins(selected_vitamins, nutrient_values')
    /\ adjusted_values' = EmptyDict
    /\ label_values' = EmptyDict
    /\ pc' = "submitted"
    /\ idx' = 1
    /\ processed_claims' = {}
    /\ message' = "unbound"
    /\ warning_shown' = FALSE
    /\ results_found' = FALSE
    /\ locals' = NoLocals
    /\ vitamin_mineral_results' = <<>>
    /\ display_size' = 0
    /\ final_disclaimer_results' = {}
    /\ shown_disclaimers' = {}
    /\ UNCHANGED <<report, callvars>>

NextSession == Convert \/ Prepare \/ EvalRule \/ VitaminMineralPass \/ Finish \/ Resubmit

SpecSession == InitSession /\ [][NextSession]_vars

(***************************************************************************)
(* The rounding functions applied to a value and again to their result.    *)
(***************************************************************************)
RoundAny(kind, value) ==
    IF kind = "rdi_percent" THEN round_rdi_percent(value)
    ELSE round_nutrition_value(value, kind)

\* show() is not running
EngineIdle ==
    /\ in_list_2 = FALSE /\ food_state_value = "solid" /\ nutrition_check_method = "analysis"
    /\ actual_serving_size = 100 /\ ref_value = 0 /\ is_ref_serving_user_input = FALSE
    /\ group_serving = "none"
    /\ nutrient_values = [k \in Nutrients |-> None]
    /\ claims = <<>>
    /\ selected_vitamins = {} /\ submissions = 0
    /\ adjusted_values = EmptyDict /\ label_values = EmptyDict
    /\ pc = "idle" /\ idx = 1 /\ processed_claims = {} /\ report = <<>>
    /\ message = "unbound" /\ warning_shown = FALSE /\ results_found = FALSE
    /\ locals = NoLocals /\ vitamin_mineral_results = <<>>
    /\ display_size = 0 /\ final_disclaimer_results = {} /\ shown_disclaimers = {}

InitRound ==
    /\ r_in \in RoundInputs
    /\ r_kind \in RoundKinds
    /\ r_out = <<>>
    /\ r_pc = "input"
    /\ r_next = None
    /\ r_text = <<>>
    /\ EngineIdle /\ ThresholdIdle /\ ConvertIdle

RoundOnce ==
    /\ r_pc = "input"
    /\ r_out' = <<RoundAny(r_kind, r_in)>>
    /\ r_pc' = "once"
    /\ UNCHANGED <<enginevars, r_in, r_kind, r_next, r_text, thresholdvars, convertvars>>

RoundAgain ==
    /\ r_pc = "once"
    /\ r_out' = Append(r_out, RoundAny(r_kind, r_out[1]))
    /\ r_pc' = "twice"
    /\ UNCHANGED <<enginevars, r_in, r_kind, r_next, r_text, thresholdvars, convertvars>>

\* the rounded amount is displayed: as a formatted value and as a row of the rounding table
FormatDisplay ==
    /\ r_pc = "once"
    /\ r_kind # "rdi_percent"
    /\ r_text' = [formatted |-> format_nutrition_display(r_out[1], r_kind, display_unit(r_kind)),
                  column |-> rounded_column_display(r_out[1], r_kind),
                  unit |-> display_unit(r_kind)]
    /\ r_pc' = "shown"
    /\ UNCHANGED <<enginevars, r_in, r_kind, r_out, r_next, thresholdvars, convertvars>>

NextRound == RoundOnce \/ RoundAgain \/ FormatDisplay

(***************************************************************************)
(* round_nutrition_value on two amounts of one nutrient, the first not     *)
(* above the second                                                        *)
(***************************************************************************)
OrderFine == 60        \* amounts 0, 0.1, ..., OrderFine / 10

OrderCoarse == 30      \* amounts 0, 5, ..., 5 * OrderCoarse

OrderInputs == {Rat(n, 10) : n \in 0..OrderFine} \cup {Num(5 * n) : n \in 0..OrderCoarse}

InitOrder ==
    /\ r_in \in OrderInputs
    /\ r_next \in {y \in OrderInputs : RLe(r_in, y)}
    /\ r_kind \in RoundKinds \ {"rdi_percent"}
    /\ r_out = <<>>
    /\ r_pc = "pair"
    /\ r_text = <<>>
    /\ EngineIdle /\ ThresholdIdle /\ ConvertIdle

RoundPair ==
    /\ r_pc = "pair"
    /\ r_out' = <<round_nutrition_value(r_in, r_kind), round_nutrition_value(r_next, r_kind)>>
    /\ r_pc' = "compared"
    /\ UNCHANGED <<enginevars, r_in, r_kind, r_next, r_text, thresholdvars, convertvars>>

NextOrder == RoundPair

SpecOrder == InitOrder /\ [][NextOrder]_vars

SpecRound == InitRound /\ [][NextRound]_vars

(***************************************************************************)
(* One call of evaluate_threshold, and the calls on each side of the text  *)
(* alone with the same values.                                             *)
(***************************************************************************)
MaxTerms == 2          \* comparisons joined in one threshold text

ThresholdOperators == {">=", "<=", "<", ">", ">=u", "<=u"}

\* the written forms of a comparison and the name it carries
AtomShapes ==
    {[form |-> "bare", name |-> ""], [form |-> "rdi", name |-> ""],
     [form |-> "named", name |-> "fiber"], [form |-> "named", name |-> "th_sugar"],
     [form |-> "raw", name |-> "fiber"]}

SingleAtoms ==
    {Atom(f.form, f.name, op, n) : f \in AtomShapes, op \in ThresholdOperators,
                                   n \in {Num(3), Num(15)}}

JoinedAtoms == {Atom(f.form, f.name, op, Num(3)) : f \in AtomShapes, op \in {">=", "<="}}

\* a cell that holds a number without an operator
Number(num) == [conn |-> "number", atoms |-> <<Atom("number", "", "", num)>>]

ThresholdStrings ==
    {NaN, Number(Num(15))}
    \cup {Single(a) : a \in SingleAtoms}
    \cup {[conn |-> c, atoms |-> q] :
            c \in {"or", "and"}, q \in UNION {[1..n -> JoinedAtoms] : n \in 2..MaxTerms}}

\* values_dict: the amounts and the %RDI figure of the nutrient, each absent or present
ThresholdValues ==
    {EmptyDict}
    \cup {[fiber |-> f, sugar |-> s, fiber_rdi_percent |-> r] :
             f \in {None, Num(2), Num(15)}, s \in {None, Num(3)},
             r \in {None, Num(15), Rat(149, 10)}}

\* label_values: not given, empty, a null entry, an entry
ThresholdLabelValues == {NoDict, EmptyDict, [fiber |-> None], [fiber |-> Num(2)]}

InitThreshold ==
    /\ t_threshold_str \in ThresholdStrings
    /\ t_values_dict \in ThresholdValues
    /\ t_nutrient_key = "fiber"
    /\ t_label_values \in ThresholdLabelValues
    /\ t_result = FALSE
    /\ t_parts = <<>>
    /\ t_pc = "input"
    /\ EngineIdle /\ RoundIdle /\ ConvertIdle

\* the call on the whole text; its try/except turns every exception into False
EvaluateThreshold ==
    /\ t_pc = "input"
    /\ t_result' = evaluate_threshold(t_threshold_str, t_values_dict, t_nutrient_key,
                                      t_label_values)
    /\ t_pc' = "whole"
    /\ UNCHANGED <<enginevars, roundvars, convertvars, t_threshold_str, t_values_dict,
                   t_nutrient_key, t_label_values, t_parts>>

\* the calls on each comparison of the text alone
EvaluateParts ==
    /\ t_pc = "whole"
    /\ t_parts' = [i \in 1..Len(t_threshold_str.atoms) |->
                      evaluate_threshold(Single(t_threshold_str.atoms[i]), t_values_dict,
                                         t_nutrient_key, t_label_values)]
    /\ t_pc' = "parts"
    /\ UNCHANGED <<enginevars, roundvars, convertvars, t_threshold_str, t_values_dict,
                   t_nutrient_key, t_label_values, t_result>>

NextThreshold == EvaluateThreshold \/ EvaluateParts

SpecThreshold == InitThreshold /\ [][NextThreshold]_vars

(***************************************************************************)
(* An amount is rounded as show() rounds the value sets of the analysis    *)
(* method, and the rounded amount is compared by evaluate_threshold        *)
(***************************************************************************)
SentinelFine == 60     \* amounts 0, 0.1, ..., SentinelFine / 10

SentinelKinds == {"trans_fat", "cholesterol", "protein", "sugar"}

\* the numbers of the upper-bound thresholds
SentinelLimits == {Num(0), Rat(1, 2), Num(1), Num(2), Num(5)}

InitSentinel ==
    /\ r_in \in {Rat(n, 10) : n \in 0..SentinelFine}
    /\ r_kind \in SentinelKinds
    /\ r_out = <<>>
    /\ r_pc = "input"
    /\ r_next = None
    /\ r_text = <<>>
    /\ t_threshold_str \in {Bare(op, num) : op \in {"<", "<="}, num \in SentinelLimits}
    /\ t_values_dict = EmptyDict
    /\ t_nutrient_key = r_kind
    /\ t_label_values = NoDict
    /\ t_result = FALSE
    /\ t_parts = <<>>
    /\ t_pc = "awaiting"
    /\ EngineIdle /\ ConvertIdle

\* the rounded amount is stored under its nutrient and the threshold is evaluated on it
CompareRounded ==
    /\ r_pc = "once"
    /\ t_pc = "awaiting"
    /\ t_values_dict' = [k \in {r_kind} |-> r_out[1]]
    /\ t_result' = evaluate_threshold(t_threshold_str, [k \in {r_kind} |-> r_out[1]],
                                      t_nutrient_key, t_label_values)
    /\ t_pc' = "whole"
    /\ UNCHANGED <<enginevars, roundvars, convertvars, t_threshold_str, t_nutrient_key,
                   t_label_values, t_parts>>

NextSentinel == RoundOnce \/ CompareRounded

SpecSentinel == InitSentinel /\ [][NextSentinel]_vars

(***************************************************************************)
(* One call of adjust_per_100_to_serving.                                  *)
(***************************************************************************)
ConvertReferences == {20, 30, 31, 50}

ConvertServings == {0, 25, 30, 100}

\* amounts per 100 g/ml; None is a nutrient that was not given
ConvertValues ==
    {[energy |-> e, sugar |-> s, saturated_fat |-> sf] :
        e \in {None, Num(40), Num(400)}, s \in {None, Rat(2, 5), Rat(5, 2), Num(7)},
        sf \in {None, Rat(3, 2), Rat(21, 5)}}

InitConvert ==
    /\ c_values \in ConvertValues
    /\ c_serving_size \in ConvertServings
    /\ c_ref_serving_size \in ConvertReferences
    /\ c_is_user_input \in BOOLEAN
    /\ c_out = EmptyDict
    /\ c_pc = "input"
    /\ EngineIdle /\ RoundIdle /\ ThresholdIdle

AdjustToServing ==
    /\ c_pc = "input"
    /\ c_out' = adjust_per_100_to_serving(c_values, c_serving_size, c_ref_serving_size,
                                          c_is_user_input)
    /\ c_pc' = "done"
    /\ UNCHANGED <<enginevars, roundvars, thresholdvars, c_values, c_serving_size,
                   c_ref_serving_size, c_is_user_input>>

NextConvert == AdjustToServing

SpecConvert == InitConvert /\ [][NextConvert]_vars

(***************************************************************************)
(* Properties.                                                             *)
(***************************************************************************)

\* C10: rounding an amount that was already rounded for the same nutrient kind
\* (or an already rounded %RDI) gives the same amount again, also when the
\* first rounding gave a "less than" flag.
C10_RoundingIdempotent ==
    r_pc = "twice" => REq(r_out[2], r_out[1])

\* the row the locals describe and its nutrient key
CurrentRow == claims[locals.row]

CurrentKey == normalize_nutrient_key(CurrentRow.nutrient)

\* the rows of the table an entry of the report is about
RowsOf(entry) ==
    {i \in 1..Len(claims) : /\ claims[i].nutrient = entry.nutrient
                            /\ claims[i].claim_text = entry.claim_text}

\* the report holds the entries of the claim loop only
LoopEntriesOnly == pc \in {"loop", "crashed", "vm_done"}

\* the primary threshold of a row, and its %RDI threshold when present, hold on a value set
HoldsOn(row, values) ==
    /\ IsNaN(row.threshold)
       \/ evaluate_threshold(row.threshold, values, normalize_nutrient_key(row.nutrient), NoDict)
    /\ IsNaN(row.threshold_rdi)
       \/ evaluate_threshold(format_rdi_threshold(row.threshold_rdi), values,
                             normalize_nutrient_key(row.nutrient), NoDict)

\* the vitamin or mineral key of the form a row of the table is about
VmKeyOf(row) ==
    CHOOSE k \in DOMAIN RDI_MAPPING : is_same_vitamin_mineral(RDI_MAPPING[k], row.nutrient)

\* the %RDI threshold of a vitamin or mineral row holds on the rounded %RDI of a value set
VmHoldsOn(row, values) ==
    /\ ~IsNaN(row.threshold_rdi)
    /\ ~IsNone(Get(values, VmKeyOf(row)))
    /\ Compare(round_rdi_percent(RMul(RDiv(values[VmKeyOf(row)], get_rdi_value(VmKeyOf(row))),
                                      Num(100))),
               convert_operator(row.threshold_rdi.atoms[1].op), row.threshold_rdi.atoms[1].num)

\* C1: for a food of list 2 a rule is reported as passing only if its primary
\* threshold and its %RDI threshold hold on the reference-serving values and on
\* the label-serving values, in the claim loop and in the vitamin/mineral pass.
C1_DualBasisAnd ==
    in_list_2 =>
        /\ LoopEntriesOnly =>
              \A i \in 1..Len(report) : report[i].is_success =>
                  \A j \in RowsOf(report[i]) :
                      /\ HoldsOn(claims[j], adjusted_values)
                      /\ HoldsOn(claims[j], label_comparison_of(label_values))
        /\ \A i \in 1..Len(vitamin_mineral_results) : vitamin_mineral_results[i].is_success =>
              \A j \in RowsOf(vitamin_mineral_results[i]) :
                  /\ VmHoldsOn(claims[j], adjusted_values)
                  /\ VmHoldsOn(claims[j], label_values)

\* a list-2 run in which a rule passes on the label values, fails on the reference
\* values and is reported as not passing, by the loop and by the vitamin/mineral pass
C1_Witness ==
    /\ in_list_2
    /\ pc = "vm_done"
    /\ \E i \in 1..Len(report) : \E j \in RowsOf(report[i]) :
          /\ ~report[i].is_success
          /\ HoldsOn(claims[j], label_comparison_of(label_values))
          /\ ~HoldsOn(claims[j], adjusted_values)
    /\ \E i \in 1..Len(vitamin_mineral_results) : \E j \in RowsOf(vitamin_mineral_results[i]) :
          /\ ~vitamin_mineral_results[i].is_success
          /\ VmHoldsOn(claims[j], label_values)
          /\ ~VmHoldsOn(claims[j], adjusted_values)

\* the per-100-kcal threshold of the current row holds on the per-100-kcal amount
Per100kcalHolds ==
    /\ Per100kcalKey(CurrentKey) \in DOMAIN adjusted_values
    /\ evaluate_threshold(CurrentRow.threshold_100kcal,
                          [k \in {CurrentKey} |-> adjusted_values[Per100kcalKey(CurrentKey)]],
                          CurrentKey, NoDict)

PrimaryHolds == evaluate_threshold(CurrentRow.threshold, adjusted_values, CurrentKey, NoDict)

\* the current row is a rule on the given nutrient with a primary and a per-100-kcal
\* threshold, evaluated for a food outside list 2
TwoBasisRule(nutrient_key) ==
    /\ locals.evaluated
    /\ ~in_list_2
    /\ CurrentKey = nutrient_key
    /\ ~IsNaN(CurrentRow.threshold)
    /\ ~IsNaN(CurrentRow.threshold_100kcal)

C3_Per100kcalOrFiber ==
    (TwoBasisRule("fiber") /\ (PrimaryHolds \/ Per100kcalHolds)) => locals.threshold_stage

\* C3 amended: for a solid food the two bases are combined with OR; for a liquid
\* food the per-100-ml result is dropped and the stage passes exactly when the
\* fibre per 100 kcal reaches 3.0 g for a "high" claim or 1.5 g for a "source of" claim.
C3_FiberSolidOrLiquidKcalOnly ==
    TwoBasisRule("fiber") =>
        IF food_state_value = "solid"
        THEN locals.threshold_stage <=> (PrimaryHolds \/ Per100kcalHolds)
        ELSE locals.threshold_stage <=>
                /\ "fiber_per_100kcal" \in DOMAIN adjusted_values
                /\ \/ /\ CurrentRow.claim_text = "high"
                      /\ RLe(Num(3), adjusted_values["fiber_per_100kcal"])
                   \/ /\ CurrentRow.claim_text = "source"
                      /\ RLe(Rat(3, 2), adjusted_values["fiber_per_100kcal"])

\* a liquid food whose fibre passes the primary threshold per 100 ml and still fails the stage
C3_Witness ==
    /\ TwoBasisRule("fiber")
    /\ food_state_value = "liquid"
    /\ PrimaryHolds
    /\ ~locals.threshold_stage
    /\ report # <<>>
    /\ report[Len(report)] = Entry(CurrentRow, FALSE)

\* the last entry of the report is the verdict of the current row
ReportedAs(is_success) ==
    /\ locals.evaluated
    /\ report # <<>>
    /\ report[Len(report)] = Entry(CurrentRow, is_success)

\* C4: a rule with a special rule passes only if the special rule holds on the
\* reference-serving values and on the label-serving values, for every reference
\* size, the reference amounts of at most 30 included.
C4_SpecialRuleAnd ==
    (/\ in_list_2
     /\ LoopEntriesOnly
     /\ ReportedAs(TRUE)
     /\ CurrentRow.special_rule # NoSpecialRule)
        => /\ evaluate_special_rule(CurrentRow.special_rule, adjusted_values, NoDict)
           /\ evaluate_special_rule(CurrentRow.special_rule, label_values, NoDict)

\* the sugar typed in, scaled to a basis and rounded with the rule for sugar, is 0
SugarRoundsToZero(factor) ==
    /\ ~IsNone(nutrient_values["sugar"])
    /\ REq(round_nutrition_value(RMul(nutrient_values["sugar"], factor), "sugar"), Num(0))

\* the factor from the amount per 100 g/ml to the reference basis
ReferenceFactor ==
    IF in_list_2 THEN Rat(EffectiveReference(ref_value, is_ref_serving_user_input), 100)
    ELSE Num(1)

\* C5: under the analysis method a sugar-free rule passes if and only if its
\* thresholds pass and the sugar rounds to 0 on the label-serving basis and on
\* the reference basis; the reference basis of a food outside list 2 is per 100 g/ml.
C5_SugarFreeDualRounding ==
    (/\ locals.evaluated
     /\ nutrition_check_method = "analysis"
     /\ CurrentKey = "sugar"
     /\ CurrentRow.claim_text = "free")
        => (locals.result <=>
               /\ HoldsOn(CurrentRow, adjusted_values)
               /\ in_list_2 => HoldsOn(CurrentRow, label_comparison_of(label_values))
               /\ SugarRoundsToZero(Rat(actual_serving_size, 100))
               /\ SugarRoundsToZero(ReferenceFactor))

\* C6: a rule without a primary, %RDI or per-100-kcal threshold never passes.
C6_InertRuleNeverPasses ==
    (/\ locals.evaluated
     /\ IsNaN(CurrentRow.threshold)
     /\ IsNaN(CurrentRow.threshold_rdi)
     /\ IsNaN(CurrentRow.threshold_100kcal)
     /\ IsNaN(CurrentRow.threshold_rdi_100kcal))
        => (~locals.result /\ ~ReportedAs(TRUE))

\* C7: the output of one evaluation, claim loop and vitamin/mineral pass together,
\* holds at most one result for a nutrient and claim text.
C7_OneResultPerClaim ==
    pc = "reported" =>
        \A i, j \in 1..Len(report) :
            (report[i].nutrient = report[j].nutrient /\ report[i].claim_text = report[j].claim_text)
                => i = j

\* the loop of show() over a whole table, from the state st
RECURSIVE RunLoop(_, _, _)
RunLoop(st, table, i) ==
    IF i > Len(table) \/ st.crashed THEN st
    ELSE RunLoop(EvalRow(st, table[i], i), table, i + 1)

\* the orders of the rows of a table
RowOrders(table) ==
    {[i \in 1..Len(table) |-> table[p[i]]] :
        p \in {q \in [1..Len(table) -> 1..Len(table)] :
                  \A a, b \in 1..Len(table) : q[a] = q[b] => a = b}}

\* what a run of the loop shows: whether it ended, and the verdict of every rule
Outcome(st) ==
    [completed |-> ~st.crashed, verdicts |-> {st.report[i] : i \in 1..Len(st.report)}]

DistinctRows ==
    \A i, j \in 1..Len(claims) : claim_key_of(claims[i]) = claim_key_of(claims[j]) => i = j

\* C8: with distinct rows, the order of the rows changes neither the verdict of a
\* rule nor whether the evaluation runs to completion.
C8_OrderIndependence ==
    (pc = "loop" /\ idx = 1 /\ DistinctRows) =>
        \A table \in RowOrders(claims) :
            Outcome(RunLoop(LoopState, table, 1)) = Outcome(RunLoop(LoopState, claims, 1))

\* C9: no evaluation of a rule lets an exception leave the claim loop; the batch
\* is never aborted.
C9_FailureIsolation == pc # "crashed"

\* the results of the comparisons of the text, each evaluated alone
PartResults == {t_parts[i] : i \in 1..Len(t_parts)}

\* C11: a text "A or B" is true if and only if A alone is true or B alone is
\* true, for every written form of A and B.
C11_OrComposition ==
    (t_pc = "parts" /\ t_threshold_str.conn = "or") => (t_result <=> TRUE \in PartResults)

\* C12: a text "A and B" is true if and only if A alone and B alone are both
\* true, for every written form of A and B.
C12_AndComposition ==
    (t_pc = "parts" /\ t_threshold_str.conn = "and") => (t_result <=> FALSE \notin PartResults)

\* C13: a comparison "raw_<nutrient><op><number>" is false whenever label_values
\* holds no entry, or a null entry, for the nutrient.
C13_RawFailsClosed ==
    (/\ t_pc = "whole"
     /\ t_threshold_str.conn = "none"
     /\ t_threshold_str.atoms[1].form = "raw"
     /\ t_label_values # NoDict
     /\ IsNone(Get(t_label_values, t_threshold_str.atoms[1].name)))
        => ~t_result

\* the amount or %RDI figure a comparison reads is absent from the value context
OperandAbsent(atom) ==
    CASE atom.form = "bare" -> IsNone(Get(t_values_dict, t_nutrient_key))
      [] atom.form = "rdi" -> IsNone(Get(t_values_dict, RdiKey(t_nutrient_key)))
      [] atom.form = "named" -> IsNone(Get(t_values_dict, normalize_nutrient_key(atom.name)))
      [] atom.form = "raw" -> t_label_values = NoDict \/ IsNone(Get(t_label_values, atom.name))
      [] OTHER -> TRUE

\* C14: evaluate_threshold returns false, and raises nothing, for every text,
\* well formed or not, whose comparisons all read an absent operand.
C14_FailClosed ==
    (/\ t_pc = "whole"
     /\ \A i \in 1..Len(t_threshold_str.atoms) : OperandAbsent(t_threshold_str.atoms[i]))
        => ~t_result

\* the comparison as it is written: >= and <= (and their one-character signs)
\* inclusive, < and > exclusive
WrittenComparison(value, op, num) ==
    CASE op \in {">=", ">=u"} -> RLt(num, value) \/ REq(value, num)
      [] op \in {"<=", "<=u"} -> RLt(value, num) \/ REq(value, num)
      [] op = "<" -> RLt(value, num)
      [] op = ">" -> RLt(num, value)
      [] OTHER -> FALSE

\* the text is one comparison "<op><number>% RDI" and the %RDI figure is stored
SingleRdiThreshold ==
    /\ t_pc = "whole"
    /\ t_threshold_str.conn = "none"
    /\ t_threshold_str.atoms[1].form = "rdi"
    /\ ~IsNone(Get(t_values_dict, RdiKey(t_nutrient_key)))

\* C15: "<op><number>% RDI" compares the stored %RDI figure of the nutrient with
\* the number by exactly the written operator.
C15_RdiOperatorSemantics ==
    SingleRdiThreshold =>
        (t_result <=> WrittenComparison(t_values_dict[RdiKey(t_nutrient_key)],
                                        t_threshold_str.atoms[1].op,
                                        t_threshold_str.atoms[1].num))

\* ">15% RDI" at a %RDI of exactly 15 is false
C15_Witness ==
    /\ SingleRdiThreshold
    /\ t_threshold_str.atoms[1].op = ">"
    /\ REq(t_threshold_str.atoms[1].num, Num(15))
    /\ REq(t_values_dict[RdiKey(t_nutrient_key)], Num(15))
    /\ ~t_result

\* the effective reference as the conversion rule states it
StatedReference(reference_size, manual_reference) ==
    IF reference_size > 30 \/ manual_reference THEN reference_size ELSE 2 * reference_size

\* the amount a of a nutrient per 100 g/ml, scaled to the reference e and rounded
ScaledAndRounded(a, e, nutrient_key) == round_nutrition_value(RMul(a, Rat(e, 100)), nutrient_key)

\* C16: for a serving size > 0 and a reference size R > 0 every amount a per 100
\* becomes the rounding of a * E / 100, E = R when R > 30 or R was typed in, else 2R;
\* an amount that was not given stays absent.
C16_DoublingInConversion ==
    (c_pc = "done" /\ c_serving_size > 0 /\ c_ref_serving_size > 0) =>
        \A k \in DOMAIN c_values :
            IF IsNone(c_values[k]) THEN IsNone(c_out[k])
            ELSE /\ ~IsNone(c_out[k])
                 /\ REq(c_out[k],
                        ScaledAndRounded(c_values[k],
                                         StatedReference(c_ref_serving_size, c_is_user_input), k))

\* R = 20 from the table: sugar is scaled to 40, which differs from the scaling to 20
C16_Witness ==
    /\ c_pc = "done"
    /\ c_serving_size > 0
    /\ c_ref_serving_size = 20
    /\ ~c_is_user_input
    /\ ~IsNone(c_values["sugar"])
    /\ REq(c_out["sugar"], ScaledAndRounded(c_values["sugar"], 40, "sugar"))
    /\ ~REq(c_out["sugar"], ScaledAndRounded(c_values["sugar"], 20, "sugar"))

\* prepare_disclaimers has run for a food group whose reference amount is a number
DisclaimersPrepared ==
    /\ pc \in {"loop", "vm_done", "reported", "no_results", "crashed"}
    /\ in_list_2
    /\ group_serving \in {"number", "blank"}

\* the rounding table of a food group named the reference amount
DisplaySizeNamed ==
    /\ pc \notin {"submitted", "awaiting_reference", "display_crashed"}
    /\ names_display_size

\* the label method converted the amounts of a food group
LabelMethodConverted ==
    /\ pc = "converted"
    /\ in_list_2
    /\ nutrition_check_method = "label"
    /\ group_serving \in {"number", "blank"}

\* C17: a reference amount R typed in by the operator is used as R and one of the
\* food-group table that is <= 30 as 2R, in the multiplier of the label method, in the
\* rounding table and in the disclaimer messages alike.
C17_ManualReferenceNeverDoubled ==
    /\ LabelMethodConverted =>
          \A k \in Supplied(nutrient_values) :
              REq(adjusted_values[k],
                  RMul(nutrient_values[k],
                       Rat(StatedReference(ref_value, is_ref_serving_user_input),
                           actual_serving_size)))
    /\ DisplaySizeNamed =>
          display_size = StatedReference(ref_value, is_ref_serving_user_input)
    /\ DisclaimersPrepared =>
          \A d \in final_disclaimer_results :
              d.in_reference =>
                  d.display_ref_size = StatedReference(ref_value, is_ref_serving_user_input)

\* the amount of a disclaimer nutrient in one serving of the label
LabelServingAmount(k) ==
    LET a == Get(nutrient_values, DisclaimerSources[k])
    IN  IF IsNone(a) THEN Num(0)
        ELSE IF nutrition_check_method = "analysis"
             THEN RMul(a, Rat(actual_serving_size, 100)) ELSE a

\* the amount of a disclaimer nutrient in one reference serving
ReferenceServingAmount(k) ==
    LET a == Get(nutrient_values, DisclaimerSources[k])
        e == StatedReference(ref_value, is_ref_serving_user_input)
    IN  IF IsNone(a) THEN Num(0)
        ELSE IF nutrition_check_method = "analysis"
             THEN RMul(a, Rat(e, 100)) ELSE RMul(a, Rat(e, actual_serving_size))

\* the amount of a disclaimer nutrient in 100 g or ml
Per100Amount(k) ==
    LET a == Get(nutrient_values, DisclaimerSources[k])
    IN  IF IsNone(a) THEN Num(0)
        ELSE IF nutrition_check_method = "analysis"
             THEN a ELSE RMul(a, Rat(100, actual_serving_size))

\* the rounded amount v of disclaimer nutrient k is strictly above the threshold of k
RoundedAbove(v, k) ==
    RLt(DisclaimerThresholds[k], round_nutrition_value(v, DisclaimerTypes[k]))

\* the nutrients of the hits prepare_disclaimers returned
HitNutrients == {d.nutrient : d \in final_disclaimer_results}

\* C18, food group: a nutrient is hit exactly when its rounded amount per label serving
\* or its rounded amount per reference serving is strictly above the threshold
DisclaimerHitsListTwo ==
    DisclaimersPrepared =>
        HitNutrients = {k \in DOMAIN DisclaimerThresholds :
                           \/ RoundedAbove(LabelServingAmount(k), k)
                           \/ RoundedAbove(ReferenceServingAmount(k), k)}

\* C18, no food group: a nutrient is hit exactly when its amount per 100 g or ml is
\* strictly above the threshold
DisclaimerHitsPer100 ==
    (pc \in {"loop", "vm_done", "reported", "no_results", "crashed"} /\ ~in_list_2) =>
        HitNutrients = {k \in DOMAIN DisclaimerThresholds :
                           RLt(DisclaimerThresholds[k], Per100Amount(k))}

\* C18: for a food group prepare_disclaimers returns a hit for a nutrient if and only if
\* its rounded label-serving amount or its rounded reference-serving amount is strictly
\* greater than the threshold; without a food group only the amount per 100 g/ml counts.
C18_DisclaimerEmission == DisclaimerHitsListTwo /\ DisclaimerHitsPer100

\* C19: once the claims table has been worked through, the disclaimers shown and
\* reported are the ones prepare_disclaimers computed from the converted amounts,
\* whether or not any claim rule produced a result.
C19_DisclaimersIndependent ==
    pc \in {"reported", "no_results"} => shown_disclaimers = final_disclaimer_results

\* the food group has no reference amount the conversion can use: the cell is not a
\* number, or the number read or typed is not positive, or nothing was typed
NoUsableReference ==
    /\ in_list_2
    /\ \/ group_serving = "text"
       \/ reference_missing
       \/ ref_value <= 0

\* C20: for a food group without a usable reference amount (missing, not a number, not
\* positive) and without a valid number from the operator, no claim result is produced:
\* the evaluation does not go on with multiplier 1.0 or with the unscaled amounts.
C20_HardStopOnReference ==
    NoUsableReference => (report = <<>> /\ vitamin_mineral_results = <<>>)

\* an energy amount has been rounded
EnergyRounded == r_pc = "once" /\ r_kind = "energy"

\* the sum of two amounts
RAdd(a, b) == Rat(a[1] * b[2] + b[1] * a[2], a[2] * b[2])

\* the distance between two amounts is at most d
Within(a, b, d) == RLe(a, RAdd(b, d)) /\ RLe(b, RAdd(a, d))

\* the amount is a whole multiple of step
MultipleOf(v, step) == v[2] = 1 /\ v[1] % step = 0

\* C23: an energy amount x >= 0 rounds to 0 when x < 5, to a multiple of 5 within 2.5
\* of x when 5 <= x < 50 and to a multiple of 10 within 5 of x when x >= 50; 47 gives
\* 45 and 120 gives 120.
C23_EnergyRoundingBands ==
    EnergyRounded =>
        /\ RLt(r_in, Num(5)) => REq(r_out[1], Num(0))
        /\ (RLe(Num(5), r_in) /\ RLt(r_in, Num(50))) =>
              (MultipleOf(r_out[1], 5) /\ Within(r_out[1], r_in, Rat(5, 2)))
        /\ RLe(Num(50), r_in) =>
              (MultipleOf(r_out[1], 10) /\ Within(r_out[1], r_in, Num(5)))
        /\ REq(r_in, Num(47)) => REq(r_out[1], Num(45))
        /\ REq(r_in, Num(120)) => REq(r_out[1], Num(120))

\* 47 kcal has been rounded to 45
C23_Witness == EnergyRounded /\ REq(r_in, Num(47)) /\ REq(r_out[1], Num(45))

\* the amount x lies in the range [low, high), or in (low, high) when the range is open below
InRange(x, low, high, open_below) ==
    /\ IF open_below THEN RLt(low, x) ELSE RLe(low, x)
    /\ RLt(x, high)

\* the bound X of the "less than X" the amount r_in of kind r_kind must round to: None
\* when the amount is outside the ranges
SentinelBound ==
    IF r_kind \in TransFatNames /\ InRange(r_in, Num(0), Rat(1, 2), TRUE) THEN Rat(1, 2)
    ELSE IF r_kind \in CholesterolNames /\ InRange(r_in, Num(2), Num(5), FALSE) THEN Num(5)
    ELSE IF r_kind \in ProteinNames /\ InRange(r_in, Rat(1, 2), Num(1), FALSE) THEN Num(1)
    ELSE None

\* the flag that stands for "less than bound"
FlagOf(bound) ==
    IF REq(bound, Rat(1, 2)) THEN LessThanHalfFlag
    ELSE IF REq(bound, Num(5)) THEN LessThanFiveFlag
    ELSE LessThanOneFlag

C29_RoundingMonotone ==
    r_pc = "compared" => RLe(r_out[1], r_out[2])

\* C30: for a reference amount R > 0, a manual flag and amounts per 100, the value set
\* adjust_per_100_to_serving returns is the same for every label serving size > 0.
C30_ServingSizeIndependence ==
    (c_pc = "done" /\ c_serving_size > 0 /\ c_ref_serving_size > 0) =>
        \A other \in ConvertServings :
            other > 0 =>
                c_out = adjust_per_100_to_serving(c_values, other, c_ref_serving_size,
                                                  c_is_user_input)

\* a rounded amount that is one of the three flags has been compared
SentinelCompared ==
    /\ t_pc = "whole"
    /\ r_pc = "once"
    /\ r_out[1] \in {LessThanHalfFlag, LessThanFiveFlag, LessThanOneFlag}

\* some amount of the range the flag stands for is below the limit (op "<") or not above
\* it (op "<="): (0, 0.5) for trans fat, [2, 5) for cholesterol, [0.5, 1) for the rest
SomeAmountInRangeMeets(kind, op, limit) ==
    IF kind \in TransFatNames THEN RLt(Num(0), limit)
    ELSE LET low == IF kind \in CholesterolNames THEN Num(2) ELSE Rat(1, 2)
         IN  IF op = "<" THEN RLt(low, limit) ELSE RLe(low, limit)

\* C28: when the amount evaluate_threshold compares is a "less than X" flag, the verdict
\* of "< t" or "<= t" is the verdict some real amount of the flag's range would give; a
\* cholesterol amount in [2, 5) never meets "< 2", a sugar amount in [0.5, 1) never "< 0.5".
C28_SentinelNoFalsePass ==
    SentinelCompared =>
        (t_result <=> SomeAmountInRangeMeets(r_kind, t_threshold_str.atoms[1].op,
                                             t_threshold_str.atoms[1].num))

\* the value sets of the submission have their %RDI entries
RdiPrepared == pc \in {"loop", "vm_done", "reported", "no_results", "crashed"}

\* the vitamins and minerals the form gives an amount of
SuppliedVitaminsMinerals == {k \in Supplied(nutrient_values) : is_vitamin_or_mineral(k)}

\* the amount of nutrient k, not rounded, on the basis the reference set stands for: one
\* reference serving for a food group, 100 g or ml otherwise
RawReferenceBasisAmount(k) ==
    LET e == IF in_list_2 THEN StatedReference(ref_value, is_ref_serving_user_input) ELSE 100
    IN  IF nutrition_check_method = "analysis" THEN RMul(nutrient_values[k], Rat(e, 100))
        ELSE RMul(nutrient_values[k], Rat(e, actual_serving_size))

\* the amount of nutrient k, not rounded, in one serving of the label
RawLabelBasisAmount(k) ==
    IF nutrition_check_method = "analysis"
    THEN RMul(nutrient_values[k], Rat(actual_serving_size, 100))
    ELSE nutrient_values[k]

\* round_rdi_percent of the raw percentage amount / RDI * 100
RoundedRawPercent(amount, k) ==
    round_rdi_percent(RMul(RDiv(amount, get_rdi_value(k)), Num(100)))

\* C21, reference set: the %RDI of a vitamin or mineral is the rounded raw percentage
RdiFigureOnReferenceSet ==
    RdiPrepared =>
        \A k \in SuppliedVitaminsMinerals :
            /\ RdiKey(k) \in DOMAIN adjusted_values
            /\ adjusted_values[RdiKey(k)] = RoundedRawPercent(RawReferenceBasisAmount(k), k)

\* C21, label set: the %RDI of a vitamin or mineral the claim loop compares for a food
\* group is the rounded raw percentage
RdiFigureOnLabelSet ==
    (RdiPrepared /\ in_list_2) =>
        \A k \in SuppliedVitaminsMinerals :
            /\ RdiKey(k) \in DOMAIN label_comparison_of(label_values)
            /\ label_comparison_of(label_values)[RdiKey(k)] =
                   RoundedRawPercent(RawLabelBasisAmount(k), k)

\* C21: every %RDI of a vitamin or mineral that a threshold is compared with, in the
\* reference-serving set and in the label-serving set, is round_rdi_percent of the raw
\* percentage amount / RDI * 100: never an unrounded percentage, never the percentage of
\* an amount that was rounded before.
C21_CompoundRdiRounding == RdiFigureOnReferenceSet /\ RdiFigureOnLabelSet

\* every entry of the value set is absent or not below 0
NonNegative(values) == \A k \in DOMAIN values : IsNone(values[k]) \/ RLe(Num(0), values[k])

\* C22: the form holds non-negative amounts only, and in every state of an evaluation
\* every amount, amount per 100 kcal and %RDI of the reference-serving set and of the
\* label-serving set is non-negative or absent.
C22_NonNegativeAmounts ==
    NonNegative(nutrient_values) =>
        /\ NonNegative(adjusted_values)
        /\ NonNegative(label_values)
        /\ NonNegative(label_comparison_of(label_values))


\* the row the claim loop works on next, and the key of its nutrient
NextRow == claims[idx]

NextKey == normalize_nutrient_key(NextRow.nutrient)

\* the claim loop is about to work on a row
AtRow == pc = "loop" /\ idx <= Len(claims)

\* the nutrient of the next row has a value in some value set
NextRowSupplied ==
    \/ ~IsNone(Get(nutrient_values, NextKey))
    \/ ~IsNone(Get(adjusted_values, NextKey))
    \/ ~IsNone(Get(label_values, NextKey))

\* C25: a rule whose nutrient has no supplied value in any value set adds no entry
\* to the report and is not counted as a result; a rule (not a repetition of an
\* earlier row) whose nutrient has a supplied value adds an entry about itself.
C25_NotApplicableSkipped ==
    [][AtRow =>
          IF NextRowSupplied
          THEN claim_key_of(NextRow) \notin processed_claims =>
                  /\ Len(report') = Len(report) + 1
                  /\ report'[Len(report')].nutrient = NextRow.nutrient
                  /\ report'[Len(report')].claim_text = NextRow.claim_text
          ELSE /\ report' = report
               /\ results_found' = results_found]_vars

\* C27: every rule the claim loop evaluates records exactly one message, and the
\* is_success flag of that message is the computed result of the rule.
C27_RecordedEqualsComputed ==
    [][(AtRow /\ locals'.evaluated /\ locals'.row = idx) =>
          /\ Len(report') = Len(report) + 1
          /\ report'[Len(report')] = Entry(NextRow, locals'.result)]_vars

\* the local variables of the claim loop as show() has them when it starts
FreshLoop ==
    [adjusted_values |-> adjusted_values, processed_claims |-> {}, report |-> <<>>,
     message |-> "unbound", warning_shown |-> FALSE, results_found |-> FALSE,
     locals |-> NoLocals, crashed |-> FALSE]

\* the messages this submission alone produces from its two dictionaries
OwnMessages ==
    RunLoop(FreshLoop, claims, 1).report
    \o dedup_vm_results(check_vitamin_mineral_claims(adjusted_values, label_values), {})

\* C26: after any sequence of submissions in a session, the messages handed to the
\* report generator are exactly those of the submission that has just run; the
\* messages and the vitamins an earlier submission left in the session change nothing.
C26_NoStateAcrossSubmissions ==
    pc = "reported" => report = OwnMessages

\* a later submission has been reported while the session still holds a vitamin that
\* only an earlier submission entered
C26_Witness ==
    /\ pc = "reported"
    /\ submissions = MaxSubmissions
    /\ report # <<>>
    /\ \E k \in selected_vitamins : IsNone(Get(nutrient_values, k))

====
